---- MODULE Spec2Model ----
(***************************************************************************)
(* Alert engine of bmkg-alert: the poll cycle (engine/worker.py), the      *)
(* state manager (engine/state.py), the location matcher                   *)
(* (engine/matcher.py) and the notification dispatcher                     *)
(* (notifications/dispatcher.py).                                          *)
(*                                                                         *)
(* Three specifications share the module:                                  *)
(*   Spec          the engine: a loop cycle and a check_now cycle over the *)
(*                 store, one step per await of _run_poll_cycle;           *)
(*   DispatchSpec  NotificationDispatcher.send applied to drawn inputs;    *)
(*   MatcherSpec   match_locations applied to drawn inputs.                *)
(*                                                                         *)
(* A Python str is a sequence of one-character strings.                    *)
(***************************************************************************)
EXTENDS Bags, FiniteSets, Integers, Naturals, Sequences, TLC

VARIABLES
    \* ---- store (database tables) ----
    alerts,            \* alerts table, in rowid order
    deliveries,        \* alert_deliveries table, in rowid order
    config,            \* config table: key -> value, a key may be absent
    activity,          \* activity_log table, as the set of event types it holds
    loc_table,         \* locations table, in rowid order
    chan_table,        \* notification_channels table, in rowid order
    now,               \* wall clock, whole hours since the epoch (UTC)
    \* ---- AlertEngine fields ----
    running,           \* AlertEngine._running
    last_poll_result,  \* AlertEngine._last_poll_result
    \* ---- tasks ----
    cyc,               \* per task: the frame of its _run_poll_cycle call
    \* ---- history of the run ----
    runs,              \* number of cycles started so far
    hist,              \* per alert id: the cycle that inserted it and its channel list
    calls,             \* bag of <<run, alert_id, channel_id>>: dispatcher.send calls
    faults,            \* number of inserts into alert_deliveries the store refused
    lastSend,          \* the latest NotificationDispatcher.send call and its outcome
    \* ---- matcher inputs and output ----
    m_warning, m_locations, m_result,
    \* ---- StateManager.mark_expired_alerts on its own ----
    mea,               \* the frame of the mark_expired_alerts call in flight
    marks,             \* the calls of mark_expired_alerts that returned, in order
    \* ---- trial subscriptions ----
    trials,            \* trial_subscriptions table, in rowid order
    bot_token,         \* settings.telegram_bot_token is set
    xt,                \* per task: the frame of its _expire_trials call
    expiries,          \* the calls of expire_trials that returned, in order
    farewells,         \* bag of trial ids: the farewell messages sent
    \* ---- start() and stop() step by step ----
    stop_event,        \* AlertEngine._stop_event is set
    task,              \* AlertEngine._task: the number of a loop task, 0 for None
    tasks,             \* the tasks created for _poll_loop, in order of creation
    reqs,              \* bag of the start() and stop() calls suspended at an await
    ncalls,            \* number of start() and stop() calls made so far
    \* ---- trial registration and trial notifications ----
    rg,                \* per request: the frame of its register_trial call
    notices            \* the trial notifications sent, in order

vars == <<alerts, deliveries, config, activity, loc_table, chan_table, now, running,
          last_poll_result, cyc, runs, hist, calls, faults, lastSend, m_warning, m_locations, m_result,
          mea, marks, trials, bot_token, xt, expiries, farewells,
          stop_event, task, tasks, reqs, ncalls, rg, notices>>

engineVars == <<alerts, deliveries, config, activity, loc_table, chan_table, now,
                running, last_poll_result, cyc, runs, hist, calls, faults, lastSend>>
matcherVars == <<m_warning, m_locations, m_result>>
histVars == <<runs, hist, calls, faults, lastSend>>
sweepVars == <<mea, marks>>
\* what the engine's actions leave alone
trialVars == <<trials, bot_token, xt, expiries, farewells>>
lifeVars == <<stop_event, task, tasks, reqs, ncalls>>
regVars == <<rg, notices>>
sideVars == <<sweepVars, trialVars, lifeVars, regVars>>
otherVars == <<matcherVars, sideVars>>

----------------------------------------------------------------------------
(* Strings                                                                 *)

\* str.lower() on one character of the alphabet the model draws from
UpperChars == <<"A", "B", "E", "K">>

LowerChars == <<"a", "b", "e", "k">>

LowerChar(ch) ==
    IF \E i \in 1..Len(UpperChars) : UpperChars[i] = ch
    THEN LowerChars[CHOOSE i \in 1..Len(UpperChars) : UpperChars[i] = ch]
    ELSE ch

\* str.lower()
Lower(s) == [i \in 1..Len(s) |-> LowerChar(s[i])]

\* Python's `needle in haystack` on str; the empty needle is in every haystack
StrIn(needle, haystack) ==
    \E i \in 0..(Len(haystack) - Len(needle)) :
        SubSeq(haystack, i + 1, i + Len(needle)) = needle

\* _word_boundary_match: a plain substring test
_word_boundary_match(needle, haystack) == StrIn(needle, haystack)

----------------------------------------------------------------------------
(* Matcher                                                                 *)

MatchResult(location, match_type, matched_text) ==
    [location |-> location, match_type |-> match_type, matched_text |-> matched_text]

\* area_names_lower = {area.name.lower() for area in warning.areas}
AreaNamesLower(warning) == {Lower(warning.areas[i]) : i \in 1..Len(warning.areas)}

\* the body of the for loop of match_locations without the truthiness guards
\* on the two names
MatchOneNoEmptyGuard(warning, location) ==
    IF ~location.enabled THEN <<>>
    ELSE IF _word_boundary_match(Lower(location.subdistrict_name), Lower(warning.description))
         THEN <<MatchResult(location, "kecamatan", location.subdistrict_name)>>
    ELSE IF \E a \in AreaNamesLower(warning) : StrIn(Lower(location.district_name), a)
         THEN <<MatchResult(location, "kabupaten", location.district_name)>>
    ELSE <<>>

\* the body of the for loop of match_locations with the two tests in the other
\* order: the district name is tried first
MatchOneFallbackFirst(warning, location) ==
    LET subdistrict == Lower(location.subdistrict_name)
        district == Lower(location.district_name)
    IN  IF ~location.enabled THEN <<>>
        ELSE IF district # <<>> /\ \E a \in AreaNamesLower(warning) : StrIn(district, a)
             THEN <<MatchResult(location, "kabupaten", location.district_name)>>
        ELSE IF subdistrict # <<>>
                /\ _word_boundary_match(subdistrict, Lower(warning.description))
             THEN <<MatchResult(location, "kecamatan", location.subdistrict_name)>>
        ELSE <<>>

\* the body of the for loop of match_locations: what one location appends to results
MatchOne(warning, location) ==
    LET description_lower == Lower(warning.description)
        subdistrict == Lower(location.subdistrict_name)
        district == Lower(location.district_name)
    IN  IF ~location.enabled THEN <<>>
        ELSE IF subdistrict # <<>> /\ _word_boundary_match(subdistrict, description_lower)
             THEN <<MatchResult(location, "kecamatan", location.subdistrict_name)>>
        ELSE IF district # <<>> /\ \E a \in AreaNamesLower(warning) : StrIn(district, a)
             THEN <<MatchResult(location, "kabupaten", location.district_name)>>
        ELSE <<>>

\* match_locations: the for loop over locations, appending to results
RECURSIVE match_locations(_, _)
match_locations(warning, locations) ==
    IF locations = <<>> THEN <<>>
    ELSE MatchOne(warning, Head(locations)) \o match_locations(warning, Tail(locations))

----------------------------------------------------------------------------
(* State manager: config and delivery log                                  *)

\* the config table maps each key to a row or to no row
NoRow == [present |-> FALSE]

Row(value) == [present |-> TRUE, value |-> value]

\* StateManager.get_config_value: the row's value, or the default
get_config_value(cfg, key, default) ==
    IF cfg[key].present THEN cfg[key].value ELSE default

\* one row of alert_deliveries, as StateManager.log_delivery inserts it
DeliveryRow(alert_id, channel_id, status, error_message) ==
    [alert_id |-> alert_id, channel_id |-> channel_id,
     status |-> status, error_message |-> error_message]

----------------------------------------------------------------------------
(* Notification dispatcher                                                 *)

Digits == <<"0", "1", "2", "3", "4", "5", "6", "7", "8", "9">>

IsDigit(ch) == \E d \in 1..Len(Digits) : Digits[d] = ch

DigitVal(ch) == (CHOOSE d \in 1..Len(Digits) : Digits[d] = ch) - 1

\* s.split(":")[0]: the text before the first colon, the whole text without one
SplitFirst(s) ==
    IF \E i \in 1..Len(s) : s[i] = ":"
    THEN SubSeq(s, 1, (CHOOSE i \in 1..Len(s) :
                          s[i] = ":" /\ \A j \in 1..(i - 1) : s[j] # ":") - 1)
    ELSE s

\* int() raising ValueError, kept apart from every hour a text can spell
ValueError == -1

\* the defaults _is_quiet_hours passes for quiet_hours_start and quiet_hours_end
QuietStartDefault == <<"2", "2", ":", "0", "0">>

QuietEndDefault == <<"0", "6", ":", "0", "0">>

\* int(t) for a text of decimal digits; anything else raises ValueError
RECURSIVE DigitsValue(_)
DigitsValue(t) ==
    IF t = <<>> THEN 0
    ELSE 10 * DigitsValue(SubSeq(t, 1, Len(t) - 1)) + DigitVal(t[Len(t)])

IntOf(t) ==
    IF t # <<>> /\ \A i \in 1..Len(t) : IsDigit(t[i])
    THEN DigitsValue(t)
    ELSE ValueError

\* the offset of Jakarta local time from UTC, in hours
JakartaOffset == 7

HoursPerDay == 24

\* _is_quiet_hours with the Severe/Extreme override left out
QuietHoursNoOverride(cfg, utc_hour, severity) ==
    LET enabled == get_config_value(cfg, "quiet_hours_enabled", "false")
        start_hour == IntOf(SplitFirst(get_config_value(cfg, "quiet_hours_start", QuietStartDefault)))
        end_hour == IntOf(SplitFirst(get_config_value(cfg, "quiet_hours_end", QuietEndDefault)))
        local_hour == (utc_hour + JakartaOffset) % HoursPerDay
    IN  IF enabled # "true" THEN FALSE
        ELSE IF start_hour = ValueError \/ end_hour = ValueError THEN FALSE
        ELSE IF start_hour > end_hour
             THEN local_hour >= start_hour \/ local_hour < end_hour
             ELSE start_hour <= local_hour /\ local_hour < end_hour

\* _is_quiet_hours without the overnight branch: the window never wraps
QuietHoursNoWrap(cfg, utc_hour, severity) ==
    LET enabled == get_config_value(cfg, "quiet_hours_enabled", "false")
        override_severe == get_config_value(cfg, "quiet_hours_override_severe", "true")
        start_hour == IntOf(SplitFirst(get_config_value(cfg, "quiet_hours_start", QuietStartDefault)))
        end_hour == IntOf(SplitFirst(get_config_value(cfg, "quiet_hours_end", QuietEndDefault)))
        local_hour == (utc_hour + JakartaOffset) % HoursPerDay
    IN  IF enabled # "true" THEN FALSE
        ELSE IF override_severe = "true" /\ severity \in {"Severe", "Extreme"} THEN FALSE
        ELSE IF start_hour = ValueError \/ end_hour = ValueError THEN FALSE
        ELSE start_hour <= local_hour /\ local_hour < end_hour

\* NotificationDispatcher._is_quiet_hours
_is_quiet_hours(cfg, utc_hour, severity) ==
    LET enabled == get_config_value(cfg, "quiet_hours_enabled", "false")
        override_severe == get_config_value(cfg, "quiet_hours_override_severe", "true")
        start_str == get_config_value(cfg, "quiet_hours_start", QuietStartDefault)
        end_str == get_config_value(cfg, "quiet_hours_end", QuietEndDefault)
        local_hour == (utc_hour + JakartaOffset) % HoursPerDay
        start_hour == IntOf(SplitFirst(start_str))
        end_hour == IntOf(SplitFirst(end_str))
    IN  IF enabled # "true" THEN FALSE
        ELSE IF override_severe = "true" /\ severity \in {"Severe", "Extreme"} THEN FALSE
        ELSE IF start_hour = ValueError \/ end_hour = ValueError THEN FALSE
        ELSE IF start_hour > end_hour
             THEN local_hour >= start_hour \/ local_hour < end_hour
             ELSE start_hour <= local_hour /\ local_hour < end_hour

\* the keys of sender_map
SenderTypes == {"telegram", "discord", "slack", "email", "webhook"}

\* sender_map.get(channel_type): the sender, or None
SenderFor(channel_type) ==
    IF channel_type \in SenderTypes THEN channel_type ELSE "None"

\* What sender.send does, as the dispatcher sees it: it returns True or False, or
\* it raises an exception whose str() is the text after "raise:".
SenderOutcomes == {"True", "False", "raise:", "raise:boom"}

IsRaise(outcome) == outcome \in {"raise:", "raise:boom"}

\* str(exc)
ExcStr(outcome) == IF outcome = "raise:boom" THEN "boom" ELSE ""

\* the result of one call of send: the rows it appended to alert_deliveries, what
\* the caller got ("True", "False", or "raise" when an exception left the call),
\* and the sender it invoked ("None" when it invoked none)
SendResult(rows, ret, invoked) == [rows |-> rows, ret |-> ret, invoked |-> invoked]

\* send without the quiet-hours return: the skip is logged and the routing goes on
SendNoQuietReturn(cfg, utc_hour, alert_id, severity, channel, outcome, log_fails) ==
    LET sender == SenderFor(channel.channel_type)
        success == sender # "None" /\ outcome = "True"
        error_msg == IF sender = "None"
                     THEN "Unsupported channel type: " \o channel.channel_type
                     ELSE IF IsRaise(outcome) THEN ExcStr(outcome) ELSE ""
        quiet == IF _is_quiet_hours(cfg, utc_hour, severity)
                 THEN <<DeliveryRow(alert_id, channel.id, "skipped_quiet_hours", "")>>
                 ELSE <<>>
    IN  IF log_fails THEN SendResult(<<>>, "raise", "None")
        ELSE SendResult(
                 quiet \o <<DeliveryRow(alert_id, channel.id,
                                        IF success THEN "sent" ELSE "failed", error_msg)>>,
                 IF success THEN "True" ELSE "False", sender)

\* send with the sender's exception left uncaught: it leaves the call, no row is logged
SendNoCatch(cfg, utc_hour, alert_id, severity, channel, outcome, log_fails) ==
    LET sender == SenderFor(channel.channel_type)
        success == sender # "None" /\ outcome = "True"
        error_msg == IF sender = "None"
                     THEN "Unsupported channel type: " \o channel.channel_type
                     ELSE ""
    IN  IF _is_quiet_hours(cfg, utc_hour, severity)
        THEN IF log_fails THEN SendResult(<<>>, "raise", "None")
             ELSE SendResult(<<DeliveryRow(alert_id, channel.id, "skipped_quiet_hours", "")>>,
                             "False", "None")
        ELSE IF sender # "None" /\ IsRaise(outcome) THEN SendResult(<<>>, "raise", sender)
        ELSE IF log_fails THEN SendResult(<<>>, "raise", sender)
        ELSE SendResult(<<DeliveryRow(alert_id, channel.id,
                                      IF success THEN "sent" ELSE "failed", error_msg)>>,
                        IF success THEN "True" ELSE "False", sender)

\* NotificationDispatcher.send. `outcome` is what the selected sender does when it
\* is invoked; `log_fails` is log_delivery raising (the store refusing the insert).
DispatcherSend(cfg, utc_hour, alert_id, severity, channel, outcome, log_fails) ==
    LET channel_id == channel.id
        channel_type == channel.channel_type
        sender == SenderFor(channel_type)
        success == sender # "None" /\ outcome = "True"
        error_msg == IF sender = "None"
                     THEN "Unsupported channel type: " \o channel_type
                     ELSE IF IsRaise(outcome) THEN ExcStr(outcome) ELSE ""
        status == IF success THEN "sent" ELSE "failed"
    IN  IF _is_quiet_hours(cfg, utc_hour, severity)
        THEN IF log_fails THEN SendResult(<<>>, "raise", "None")
             ELSE SendResult(<<DeliveryRow(alert_id, channel_id, "skipped_quiet_hours", "")>>,
                             "False", "None")
        ELSE IF log_fails THEN SendResult(<<>>, "raise", sender)
        ELSE SendResult(<<DeliveryRow(alert_id, channel_id, status, error_msg)>>,
                        IF success THEN "True" ELSE "False", sender)

\* no send call made yet
NoSend == [ret |-> "none"]

\* the record kept of a send call: its arguments, what the sender and the store
\* did, and what the caller got
SendRecord(alert_id, severity, channel, outcome, log_fails, res) ==
    [alert_id |-> alert_id, severity |-> severity, channel |-> channel,
     outcome |-> outcome, log_fails |-> log_fails,
     ret |-> res.ret, invoked |-> res.invoked]

----------------------------------------------------------------------------
(* Clock and timestamps                                                    *)

\* the characters of a timestamp in ASCII order, as SQLite's BINARY collation
\* compares them
AsciiOrder == <<" ", "+", "-", "0", "1", "2", "3", "4", "5", "6", "7", "8", "9", ":", "T">>

Ord(ch) == CHOOSE i \in 1..Len(AsciiOrder) : AsciiOrder[i] = ch

\* a < b on TEXT values: bytewise, a proper prefix is the smaller
RECURSIVE StrLess(_, _)
StrLess(a, b) ==
    IF b = <<>> THEN FALSE
    ELSE IF a = <<>> THEN TRUE
    ELSE IF Head(a) # Head(b) THEN Ord(Head(a)) < Ord(Head(b))
    ELSE StrLess(Tail(a), Tail(b))

\* datetime.now(timezone.utc).isoformat() on the hour, cut to day, hour and
\* offset: <day>T<hh>+00
IsoFormat(t) ==
    LET day == t \div HoursPerDay
        hour == t % HoursPerDay
    IN  <<Digits[day + 1], "T", Digits[(hour \div 10) + 1], Digits[(hour % 10) + 1],
          "+", "0", "0">>

----------------------------------------------------------------------------
(* Upstream (BMKG API), as the cycles of one run see it                    *)

\* nowcast.data: the codes of the list items
NowcastData == <<"CBT1", "CBT2">>

Warning(severity, description, areas, expires, is_expired) ==
    [severity |-> severity, description |-> description, areas |-> areas,
     expires |-> expires, is_expired |-> is_expired]

\* detail.warnings of get_nowcast_detail(code).  CBT1 holds a warning that names
\* Al in its description (location 1, kecamatan) and a severe one that names Bo
\* and lies in the area KEB (location 2 by kecamatan, location 1 by kabupaten);
\* CBT2 holds a warning the upstream flags as expired.
DetailWarnings(code) ==
    IF code = "CBT1"
    THEN << Warning("Moderate", <<"a", "l", ",", "x">>, << <<"x">> >>,
                    <<"0", "T", "1", "5">>, FALSE),
            Warning("Severe", <<"B", "o">>, << <<"K", "E", "B">> >>, <<>>, FALSE) >>
    ELSE << Warning("Extreme", <<"a", "l">>, << <<"k", "e">> >>,
                    <<"0", "T", "0", "1">>, TRUE) >>

----------------------------------------------------------------------------
(* State manager: alerts, locations, channels                              *)

\* StateManager.get_enabled_locations
get_enabled_locations(locs) == SelectSeq(locs, LAMBDA l : l.enabled)

\* StateManager.get_enabled_channels
get_enabled_channels(chans) == SelectSeq(chans, LAMBDA c : c.enabled)

\* is_duplicate counting only the rows that are still active
IsDuplicateActiveOnly(rows, alert_code, location_id) ==
    \E i \in 1..Len(rows) :
        /\ rows[i].bmkg_alert_code = alert_code
        /\ rows[i].matched_location_id = location_id
        /\ rows[i].status = "active"

\* StateManager.is_duplicate: any row with the pair, whatever its status
is_duplicate(rows, alert_code, location_id) ==
    \E i \in 1..Len(rows) :
        /\ rows[i].bmkg_alert_code = alert_code
        /\ rows[i].matched_location_id = location_id

\* a table without the unique index on the pair: no insert is refused
NoUniqueIndex(rows, alert_code, location_id) == FALSE

\* The unique index of the alerts table on (bmkg_alert_code, matched_location_id):
\* the INSERT of store_alert is refused when a row with the pair exists.
DuplicateKey(rows, alert_code, location_id) ==
    \E i \in 1..Len(rows) :
        /\ rows[i].bmkg_alert_code = alert_code
        /\ rows[i].matched_location_id = location_id

\* the row store_alert inserts
AlertRow(id, warning, match, alert_code) ==
    [id |-> id, bmkg_alert_code |-> alert_code, severity |-> warning.severity,
     expires |-> warning.expires, matched_location_id |-> match.location.id,
     match_type |-> match.match_type, matched_text |-> match.matched_text,
     status |-> "active"]

\* the SELECT of mark_expired_alerts without its condition expires != ''
ExpiredRowsNoEmptyGuard(rows, t) ==
    LET now_utc == IsoFormat(t)
    IN  SelectSeq(rows, LAMBDA r : /\ r.status = "active"
                                   /\ StrLess(r.expires, now_utc))

\* the SELECT of mark_expired_alerts: the rows to expire, as they are read
ExpiredRows(rows, t) ==
    LET now_utc == IsoFormat(t)
    IN  SelectSeq(rows, LAMBDA r : /\ r.status = "active"
                                   /\ r.expires # <<>>
                                   /\ StrLess(r.expires, now_utc))

\* the ids of the rows mark_expired_alerts updates, in the order of the SELECT
ExpiredSelect(rows, t) ==
    LET hit == ExpiredRows(rows, t)
    IN  [i \in 1..Len(hit) |-> hit[i].id]

\* the UPDATE of mark_expired_alerts writing nothing
ExpireRowNoWrite(rows, id) == rows

\* the UPDATE of mark_expired_alerts as a toggle: a row found expired is set
\* back to 'active'
ExpireRowToggles(rows, id) ==
    [i \in 1..Len(rows) |->
        IF rows[i].id = id
        THEN [rows[i] EXCEPT !.status = IF @ = "active" THEN "expired" ELSE "active"]
        ELSE rows[i]]

\* UPDATE alerts SET status = 'expired' WHERE id = ?
ExpireRow(rows, id) ==
    [i \in 1..Len(rows) |-> IF rows[i].id = id THEN [rows[i] EXCEPT !.status = "expired"]
                            ELSE rows[i]]

----------------------------------------------------------------------------
(* State manager: trial subscriptions                                      *)

\* strftime("%Y-%m-%d %H:%M:%S") and CURRENT_TIMESTAMP on the hour, cut to day
\* and hour: <day> <hh>
Timestamp(t) ==
    LET day == t \div HoursPerDay
        hour == t % HoursPerDay
    IN  <<Digits[day + 1], " ", Digits[(hour \div 10) + 1], Digits[(hour % 10) + 1]>>

TrialRow(id, chat_id, expires_at, expired_notified) ==
    [id |-> id, telegram_chat_id |-> chat_id, expires_at |-> expires_at,
     expired_notified |-> expired_notified]

\* the SELECT of expire_trials without its condition on expired_notified
DueTrialsIgnoringFlag(rows, t) ==
    SelectSeq(rows, LAMBDA r : ~StrLess(Timestamp(t), r.expires_at))

\* the SELECT of expire_trials:
\* expires_at <= CURRENT_TIMESTAMP AND expired_notified = 0
DueTrials(rows, t) ==
    SelectSeq(rows, LAMBDA r : /\ ~StrLess(Timestamp(t), r.expires_at)
                               /\ ~r.expired_notified)

\* UPDATE trial_subscriptions SET expired_notified = 1 WHERE id IN (...)
MarkNotified(rows, expired) ==
    [i \in 1..Len(rows) |->
        IF \E j \in 1..Len(expired) : expired[j].id = rows[i].id
        THEN [rows[i] EXCEPT !.expired_notified = TRUE] ELSE rows[i]]

\* StateManager.get_active_trials: expires_at > CURRENT_TIMESTAMP
get_active_trials(rows, t) ==
    SelectSeq(rows, LAMBDA r : StrLess(Timestamp(t), r.expires_at))

----------------------------------------------------------------------------
(* Trial notifications: the filter and the match of _process_trials        *)

\* str.lower() on the severity names and thresholds the model draws from
SeverityLower(name) ==
    CASE name = "Minor" -> "minor"
      [] name = "Moderate" -> "moderate"
      [] name = "Severe" -> "severe"
      [] name = "Extreme" -> "extreme"
      [] OTHER -> name

_SEVERITY_ORDER == [minor |-> 0, moderate |-> 1, severe |-> 2, extreme |-> 3]

\* _SEVERITY_ORDER.get(name.lower(), 0)
SeverityOrderGet(name) ==
    IF SeverityLower(name) \in DOMAIN _SEVERITY_ORDER
    THEN _SEVERITY_ORDER[SeverityLower(name)] ELSE 0

\* the severity filter with its comparison the other way round
TrialPassesBelow(warning, trial) ==
    \/ trial.severity_threshold = "all"
    \/ ~(SeverityOrderGet(warning.severity) > SeverityOrderGet(trial.severity_threshold))

\* the severity filter: the trial is skipped when its threshold is not "all"
\* and the warning ranks below it
TrialPasses(warning, trial) ==
    \/ trial.severity_threshold = "all"
    \/ ~(SeverityOrderGet(warning.severity) < SeverityOrderGet(trial.severity_threshold))

\* the location match: the subdistrict name in the description, or else the
\* district name in an area name, both as plain substrings
TrialMatches(warning, trial) ==
    LET sub_name == Lower(trial.subdistrict_name)
        dist_name == Lower(trial.district_name)
    IN  \/ sub_name # <<>> /\ StrIn(sub_name, Lower(warning.description))
        \/ dist_name # <<>> /\ \E a \in AreaNamesLower(warning) : StrIn(dist_name, a)

\* the (warning, trial) positions of one item that reach send_raw, in the order
\* of the two loops
TrialSends(warnings, active) ==
    LET W == Len(warnings)
        T == Len(active)
        pairs == [n \in 1..(W * T) |-> <<((n - 1) \div T) + 1, ((n - 1) % T) + 1>>]
    IN  SelectSeq(pairs, LAMBDA x : /\ ~warnings[x[1]].is_expired
                                    /\ TrialPasses(warnings[x[1]], active[x[2]])
                                    /\ TrialMatches(warnings[x[1]], active[x[2]]))

----------------------------------------------------------------------------
(* Alert engine: the frame of one _run_poll_cycle call                     *)

\* the tasks that run cycles: the poll loop's task and a check_now request
Procs == {"loop", "check"}

EmptySummary ==
    [warnings_fetched |-> 0, details_fetched |-> 0, matches_found |-> 0,
     new_alerts |-> 0, duplicates_skipped |-> 0, notifications_sent |-> 0,
     expired_alerts |-> 0, trial_notifications |-> 0, trials_expired |-> 0,
     errors |-> <<>>]

\* pc names the await the call is suspended at and run numbers the call.
\* checked and collided are the history of the call: the matches (item, warning,
\* location id) whose dedup check ran and whose insert was refused.  active,
\* sent_count and unfetched belong to _process_trials: the trials it read, its
\* counter, and the items whose detail it could not fetch.
IdleFrame ==
    [pc |-> "none", run |-> 0, data |-> <<>>, locations |-> <<>>, channels |-> <<>>,
     i |-> 0, w |-> 0, m |-> 0, k |-> 0, matches |-> <<>>, alert_id |-> 0,
     pending |-> <<>>, expired_n |-> 0, logev |-> "",
     summary |-> EmptySummary, checked |-> {}, collided |-> {},
     active |-> <<>>, sent_count |-> 0, unfetched |-> {}]

CyclePcs == {"list", "locs", "chans", "detail", "dup", "store", "send",
             "sweep", "sweep_upd", "trials", "tdetail", "tsend", "texpire", "tupdate",
             "tfarewell", "log"}

InFlight(c) == c.pc \in CyclePcs

\* the cycle returns: check_now hands the summary back, the loop goes on to read
\* poll_interval
Return(p, c) == [IdleFrame EXCEPT !.pc = IF p = "loop" THEN "interval" ELSE "done"]

\* the task is cancelled: CancelledError leaves the call at its await, past every
\* `except Exception`, and the frame is gone
Cancelled(c) == [IdleFrame EXCEPT !.pc = "dead"]

\* the item loop moves to the next list item, or leaves for the expiry sweep
NextItem(c) ==
    IF c.i < Len(c.data)
    THEN [c EXCEPT !.i = c.i + 1, !.w = 0, !.m = 0, !.matches = <<>>, !.pc = "detail"]
    ELSE [c EXCEPT !.w = 0, !.m = 0, !.matches = <<>>, !.pc = "sweep"]

\* the warning loop from warning c.w on: skip the expired ones, match, and stop
\* at the dedup check of the first match
RECURSIVE EnterWarning(_)
EnterWarning(c) ==
    LET warnings == DetailWarnings(c.data[c.i])
    IN  IF c.w > Len(warnings) THEN NextItem(c)
        ELSE IF warnings[c.w].is_expired THEN EnterWarning([c EXCEPT !.w = c.w + 1])
        ELSE LET matches == match_locations(warnings[c.w], c.locations)
                 c2 == [c EXCEPT !.summary.matches_found = @ + Len(matches)]
             IN  IF matches = <<>> THEN EnterWarning([c2 EXCEPT !.w = c.w + 1])
                 ELSE [c2 EXCEPT !.matches = matches, !.m = 1, !.pc = "dup"]

\* the match loop after match c.m is done
AfterMatch(c) ==
    IF c.m < Len(c.matches) THEN [c EXCEPT !.m = c.m + 1, !.pc = "dup"]
    ELSE EnterWarning([c EXCEPT !.w = c.w + 1])

\* `continue` after a dedup hit
AfterDuplicate(c) == AfterMatch(c)

\* the channel loop re-reading the enabled channels at every alert
ChannelsReRead(c, chans) == get_enabled_channels(chans)

\* the channel loop walking the cycle's list from its last channel to its first
CycleChannelsReversed(c, chans) ==
    [j \in 1..Len(c.channels) |-> c.channels[Len(c.channels) + 1 - j]]

\* the channels the send loop walks: the list read at the start of the cycle
CycleChannels(c, chans) == c.channels

\* last_poll_result of a completed cycle: "OK: N new, M dupes, K expired"
OkResult(summary) ==
    <<"OK", summary.new_alerts, summary.duplicates_skipped, summary.expired_alerts>>

\* step 5 done with n rows expired: the cycle is at _process_trials
AfterSweep(c, n) == [c EXCEPT !.pc = "trials", !.pending = <<>>, !.summary.expired_alerts = n]

\* steps 5 to 7 done: the result is composed, poll_completed is about to be logged
Compose(c) == [c EXCEPT !.pc = "log", !.logev = "poll_completed"]

\* the item loop of _process_trials moves to the next item, or the call
\* returns its counter and the cycle reaches _expire_trials
TrialNextItem(c) ==
    IF c.i < Len(c.data)
    THEN [c EXCEPT !.i = c.i + 1, !.pending = <<>>, !.pc = "tdetail"]
    ELSE [c EXCEPT !.pending = <<>>, !.pc = "texpire",
                   !.summary.trial_notifications = c.sent_count]

----------------------------------------------------------------------------
(* Bounds and the data of a run                                            *)

\* cycles started in one behaviour
MaxRuns == 2

\* inserts into alert_deliveries the store refuses in one behaviour
MaxFaults == 1

\* the hour (UTC, since the epoch) the behaviour starts at: 23:00 in Jakarta
StartNow == 16

LocationRows ==
    << [id |-> 1, subdistrict_name |-> <<"A", "l">>, district_name |-> <<"K", "e">>,
        enabled |-> TRUE],
       [id |-> 2, subdistrict_name |-> <<"B", "o">>, district_name |-> <<"p", "u">>,
        enabled |-> TRUE],
       [id |-> 3, subdistrict_name |-> <<"a", "l">>, district_name |-> <<"k", "e">>,
        enabled |-> FALSE] >>

ChannelRows ==
    << [id |-> 1, channel_type |-> "telegram", enabled |-> TRUE],
       [id |-> 2, channel_type |-> "webhook", enabled |-> TRUE] >>

ConfigKeys == {"quiet_hours_enabled", "quiet_hours_override_severe",
               "quiet_hours_start", "quiet_hours_end"}

\* the config table with no row: every read takes its default
DefaultConfig == [key \in ConfigKeys |-> NoRow]

\* quiet hours on, 22:00 to 06:00, Severe and Extreme exempt
EngineConfig == [DefaultConfig EXCEPT !["quiet_hours_enabled"] = Row("true")]

NoMatch == [done |-> FALSE, matches |-> <<>>]

MatcherIdle ==
    /\ m_warning = Warning("", <<>>, <<>>, <<>>, FALSE)
    /\ m_locations = <<>>
    /\ m_result = NoMatch

\* no call of mark_expired_alerts outside a cycle
NoMark == [pc |-> "idle", at |-> 0, before |-> <<>>, rows |-> <<>>, k |-> 0]

SweepIdle ==
    /\ mea = NoMark
    /\ marks = <<>>

\* no _expire_trials call in flight
NoExpire == [pc |-> "idle", at |-> 0, before |-> <<>>, rows |-> <<>>, k |-> 0]

\* no trial registered
TrialIdle ==
    /\ trials = <<>>
    /\ bot_token = FALSE
    /\ xt = [p \in Procs |-> NoExpire]
    /\ expiries = <<>>
    /\ farewells = EmptyBag

\* the engine as constructed: no loop task, no call of start() or stop()
LifeIdle ==
    /\ stop_event = FALSE
    /\ task = 0
    /\ tasks = <<>>
    /\ reqs = EmptyBag
    /\ ncalls = 0

\* register_trial requests in one behaviour
MaxRegs == 2

Regs == 1..MaxRegs

\* no register_trial call made by the request yet
NoRequest == [pc |-> "idle", chat_id |-> 0]

RegIdle ==
    /\ rg = [r \in Regs |-> NoRequest]
    /\ notices = <<>>

SideIdle == SweepIdle /\ TrialIdle /\ LifeIdle /\ RegIdle

----------------------------------------------------------------------------
(* Alert engine: actions                                                   *)

\* the engine constructed and not started, over a store with no alert
EngineIdle ==
    /\ alerts = <<>>
    /\ activity = {}
    /\ loc_table = LocationRows
    /\ chan_table = ChannelRows
    /\ running = FALSE
    /\ last_poll_result = <<"none">>
    /\ cyc = [p \in Procs |-> IdleFrame]
    /\ runs = 0
    /\ hist = <<>>
    /\ calls = EmptyBag
    /\ faults = 0

Init ==
    /\ EngineIdle
    /\ deliveries = <<>>
    /\ config = EngineConfig
    /\ now = StartNow
    /\ lastSend = NoSend
    /\ MatcherIdle
    /\ SideIdle

LogActivity(event_type) == activity' = activity \cup {event_type}

\* _run_poll_cycle up to its first await, get_nowcast_list
BeginCycle(p) ==
    /\ runs < MaxRuns
    /\ runs' = runs + 1
    /\ cyc' = [cyc EXCEPT ![p] = [IdleFrame EXCEPT !.pc = "list", !.run = runs + 1]]

\* AlertEngine.start
Start ==
    /\ ~running
    /\ running' = TRUE
    /\ BeginCycle("loop")
    /\ LogActivity("engine_started")
    /\ UNCHANGED <<alerts, deliveries, config, loc_table, chan_table, now,
                   last_poll_result, hist, calls, faults, lastSend, otherVars>>

\* AlertEngine.stop: the loop task is cancelled at the await it is suspended at
Stop ==
    /\ running
    /\ running' = FALSE
    /\ cyc' = [cyc EXCEPT !["loop"] = Cancelled(@)]
    /\ hist' = [a \in 1..Len(hist) |->
                   IF cyc["loop"].pc = "send" /\ cyc["loop"].alert_id = a
                   THEN [hist[a] EXCEPT !.cut = TRUE] ELSE hist[a]]
    /\ LogActivity("engine_stopped")
    /\ UNCHANGED <<alerts, deliveries, config, loc_table, chan_table, now,
                   last_poll_result, runs, calls, faults, lastSend, otherVars>>

\* check_now written as a start of the engine: the cycle runs on the caller's
\* task but the running flag is raised
CheckNowRaisesFlag ==
    /\ cyc["check"].pc \in {"none", "done"}
    /\ BeginCycle("check")
    /\ running' = TRUE
    /\ UNCHANGED <<alerts, deliveries, config, activity, loc_table, chan_table, now,
                   last_poll_result, hist, calls, faults, lastSend, otherVars>>

\* AlertEngine.check_now
CheckNow ==
    /\ cyc["check"].pc \in {"none", "done"}
    /\ BeginCycle("check")
    /\ UNCHANGED <<alerts, deliveries, config, activity, loc_table, chan_table, now,
                   running, last_poll_result, hist, calls, faults, lastSend, otherVars>>

\* _poll_loop: poll_interval is read, the loop waits on the stop event
LoopInterval ==
    /\ cyc["loop"].pc = "interval"
    /\ cyc' = [cyc EXCEPT !["loop"].pc = "wait"]
    /\ UNCHANGED <<alerts, deliveries, config, activity, loc_table, chan_table, now,
                   running, last_poll_result, histVars, otherVars>>

\* _poll_loop: the wait times out and the next cycle starts
LoopTimeout ==
    /\ cyc["loop"].pc = "wait"
    /\ running
    /\ BeginCycle("loop")
    /\ UNCHANGED <<alerts, deliveries, config, activity, loc_table, chan_table, now,
                   running, last_poll_result, hist, calls, faults, lastSend, otherVars>>

\* get_nowcast_list raising with no handler around it: the exception leaves
\* the cycle, which sets no result and logs nothing
ListFailsPropagates(p) ==
    /\ cyc[p].pc = "list"
    /\ cyc' = [cyc EXCEPT ![p] = Return(p, @)]
    /\ UNCHANGED <<alerts, deliveries, config, activity, loc_table, chan_table, now,
                   running, last_poll_result, histVars, otherVars>>

\* get_nowcast_list raises: the handler of the outer try sets the result
ListFails(p) ==
    /\ cyc[p].pc = "list"
    /\ last_poll_result' = <<"error">>
    /\ cyc' = [cyc EXCEPT ![p] = [@ EXCEPT !.pc = "log", !.logev = "poll_error"]]
    /\ UNCHANGED <<alerts, deliveries, config, activity, loc_table, chan_table, now,
                   running, histVars, otherVars>>

\* get_nowcast_list returns no item
ListEmpty(p) ==
    /\ cyc[p].pc = "list"
    /\ last_poll_result' = <<"no warnings">>
    /\ cyc' = [cyc EXCEPT ![p] = [@ EXCEPT !.pc = "log", !.logev = "poll_completed"]]
    /\ UNCHANGED <<alerts, deliveries, config, activity, loc_table, chan_table, now,
                   running, histVars, otherVars>>

\* get_nowcast_list returns the items
ListData(p) ==
    /\ cyc[p].pc = "list"
    /\ cyc' = [cyc EXCEPT ![p] = [@ EXCEPT !.pc = "locs", !.data = NowcastData,
                                           !.summary.warnings_fetched = Len(NowcastData)]]
    /\ UNCHANGED <<alerts, deliveries, config, activity, loc_table, chan_table, now,
                   running, last_poll_result, histVars, otherVars>>

\* get_enabled_locations with no test of the result: the cycle goes on with
\* whatever locations it got
LocsGoesOn(p) ==
    /\ cyc[p].pc = "locs"
    /\ cyc' = [cyc EXCEPT ![p] = [@ EXCEPT !.pc = "chans",
                                           !.locations = get_enabled_locations(loc_table)]]
    /\ UNCHANGED <<alerts, deliveries, config, activity, loc_table, chan_table, now,
                   running, last_poll_result, histVars, otherVars>>

\* get_enabled_locations; with none the cycle returns
Locs(p) ==
    /\ cyc[p].pc = "locs"
    /\ LET locs == get_enabled_locations(loc_table)
       IN  IF locs = <<>>
           THEN /\ last_poll_result' = <<"no locations configured">>
                /\ cyc' = [cyc EXCEPT ![p] = Return(p, @)]
           ELSE /\ cyc' = [cyc EXCEPT ![p] = [@ EXCEPT !.pc = "chans", !.locations = locs]]
                /\ UNCHANGED last_poll_result
    /\ UNCHANGED <<alerts, deliveries, config, activity, loc_table, chan_table, now,
                   running, histVars, otherVars>>

\* get_enabled_channels, then the item loop reaches the first detail fetch
Chans(p) ==
    /\ cyc[p].pc = "chans"
    /\ cyc' = [cyc EXCEPT ![p] = [@ EXCEPT !.pc = "detail", !.i = 1,
                                           !.channels = get_enabled_channels(chan_table)]]
    /\ UNCHANGED <<alerts, deliveries, config, activity, loc_table, chan_table, now,
                   running, last_poll_result, histVars, otherVars>>

\* get_nowcast_detail raising with no handler of its own around the item: the
\* exception reaches the handler of the outer try and the cycle ends there
DetailFailsAborts(p) ==
    /\ cyc[p].pc = "detail"
    /\ last_poll_result' = <<"error">>
    /\ cyc' = [cyc EXCEPT ![p] = [@ EXCEPT !.pc = "log", !.logev = "poll_error"]]
    /\ UNCHANGED <<alerts, deliveries, config, activity, loc_table, chan_table, now,
                   running, histVars, otherVars>>

\* get_nowcast_detail raises: the item's handler appends the error
DetailFails(p) ==
    /\ cyc[p].pc = "detail"
    /\ LET c == cyc[p]
       IN  cyc' = [cyc EXCEPT ![p] =
                      NextItem([c EXCEPT !.summary.errors =
                                             Append(@, <<c.data[c.i], "detail">>)])]
    /\ UNCHANGED <<alerts, deliveries, config, activity, loc_table, chan_table, now,
                   running, last_poll_result, histVars, otherVars>>

\* get_nowcast_detail returns: the warning loop runs up to the first dedup check
DetailOk(p) ==
    /\ cyc[p].pc = "detail"
    /\ LET c == cyc[p]
       IN  cyc' = [cyc EXCEPT ![p] =
                      EnterWarning([c EXCEPT !.summary.details_fetched = @ + 1, !.w = 1])]
    /\ UNCHANGED <<alerts, deliveries, config, activity, loc_table, chan_table, now,
                   running, last_poll_result, histVars, otherVars>>

\* is_duplicate returns, and a duplicate is passed over without being counted
DupUncounted(p) ==
    /\ cyc[p].pc = "dup"
    /\ LET match == cyc[p].matches[cyc[p].m]
           c == [cyc[p] EXCEPT !.checked = @ \cup {<<cyc[p].i, cyc[p].w, match.location.id>>}]
       IN  IF is_duplicate(alerts, c.data[c.i], match.location.id)
           THEN cyc' = [cyc EXCEPT ![p] = AfterDuplicate(c)]
           ELSE cyc' = [cyc EXCEPT ![p] = [c EXCEPT !.pc = "store"]]
    /\ UNCHANGED <<alerts, deliveries, config, activity, loc_table, chan_table, now,
                   running, last_poll_result, histVars, otherVars>>

\* is_duplicate returns
Dup(p) ==
    /\ cyc[p].pc = "dup"
    /\ LET match == cyc[p].matches[cyc[p].m]
           c == [cyc[p] EXCEPT !.checked = @ \cup {<<cyc[p].i, cyc[p].w, match.location.id>>}]
       IN  IF is_duplicate(alerts, c.data[c.i], match.location.id)
           THEN cyc' = [cyc EXCEPT ![p] =
                           AfterDuplicate([c EXCEPT !.summary.duplicates_skipped = @ + 1])]
           ELSE cyc' = [cyc EXCEPT ![p] = [c EXCEPT !.pc = "store"]]
    /\ UNCHANGED <<alerts, deliveries, config, activity, loc_table, chan_table, now,
                   running, last_poll_result, histVars, otherVars>>

\* the enabled flag the locations table holds for a location at this moment
IsEnabledNow(locs, id) == \E i \in 1..Len(locs) : locs[i].id = id /\ locs[i].enabled

\* store_alert inserts the row; the channel loop reaches its first send
StoreInserts(p) ==
    /\ cyc[p].pc = "store"
    /\ LET c == cyc[p]
           code == c.data[c.i]
           match == c.matches[c.m]
           warning == DetailWarnings(code)[c.w]
           alert_id == Len(alerts) + 1
           c2 == [c EXCEPT !.alert_id = alert_id, !.summary.new_alerts = @ + 1]
       IN  /\ ~DuplicateKey(alerts, code, match.location.id)
           /\ alerts' = Append(alerts, AlertRow(alert_id, warning, match, code))
           /\ hist' = Append(hist, [by |-> c.run, cut |-> FALSE, at |-> <<c.i, c.w, c.m>>,
                                    live |-> IsEnabledNow(loc_table, match.location.id),
                                    chans |-> [j \in 1..Len(c.channels) |-> c.channels[j].id]])
           /\ cyc' = [cyc EXCEPT ![p] =
                         IF CycleChannels(c, chan_table) # <<>>
                         THEN [c2 EXCEPT !.pc = "send", !.k = 1]
                         ELSE AfterMatch(c2)]
    /\ UNCHANGED <<deliveries, config, activity, loc_table, chan_table, now,
                   running, last_poll_result, runs, calls, faults, lastSend, otherVars>>

\* store_alert raises on the unique index: the item's handler appends the error
\* and the item loop moves on
StoreRefused(p) ==
    /\ cyc[p].pc = "store"
    /\ LET c == cyc[p]
           code == c.data[c.i]
           match == c.matches[c.m]
       IN  /\ DuplicateKey(alerts, code, match.location.id)
           /\ cyc' = [cyc EXCEPT ![p] =
                         NextItem([c EXCEPT !.summary.errors =
                                                Append(@, <<code, "IntegrityError">>),
                                            !.collided =
                                                @ \cup {<<c.i, c.w, match.location.id>>}])]
    /\ UNCHANGED <<alerts, deliveries, config, activity, loc_table, chan_table, now,
                   running, last_poll_result, histVars, otherVars>>

\* what the sender of a channel can do when it is invoked
EngineOutcomes(channel) ==
    IF channel.channel_type = "webhook" THEN {"raise:boom"} ELSE {"True", "False"}

\* dispatcher.send with no handler of its own around the call: an exception of
\* the call reaches the item's handler and the rest of the item is skipped
SendUnguarded(p) ==
    /\ cyc[p].pc = "send"
    /\ LET c == cyc[p]
           chans == CycleChannels(c, chan_table)
       IN  /\ c.k <= Len(chans)
           /\ \E outcome \in EngineOutcomes(chans[c.k]),
                 log_fails \in {FALSE} \cup {faults < MaxFaults} :
                LET channel == chans[c.k]
                    warning == DetailWarnings(c.data[c.i])[c.w]
                    res == DispatcherSend(config, now % HoursPerDay, c.alert_id,
                                          warning.severity, channel, outcome, log_fails)
                    c2 == [c EXCEPT !.summary.notifications_sent =
                                        IF res.ret = "True" THEN @ + 1 ELSE @,
                                    !.summary.errors =
                                        IF res.ret = "raise" THEN Append(@, <<"send", "store">>)
                                        ELSE @]
                IN  /\ deliveries' = deliveries \o res.rows
                    /\ calls' = calls (+) SetToBag({<<c.run, c.alert_id, channel.id>>})
                    /\ hist' = [hist EXCEPT ![c.alert_id].live =
                                    @ /\ IsEnabledNow(loc_table, c.matches[c.m].location.id)]
                    /\ faults' = IF log_fails THEN faults + 1 ELSE faults
                    /\ cyc' = [cyc EXCEPT ![p] =
                                  IF res.ret = "raise" THEN NextItem(c2)
                                  ELSE IF c.k < Len(chans) THEN [c2 EXCEPT !.k = c.k + 1]
                                  ELSE AfterMatch(c2)]
    /\ UNCHANGED <<alerts, config, activity, loc_table, chan_table, now,
                   running, last_poll_result, runs, lastSend, otherVars>>

\* dispatcher.send for channel k of the alert just stored
Send(p) ==
    /\ cyc[p].pc = "send"
    /\ LET c == cyc[p]
           chans == CycleChannels(c, chan_table)
       IN  /\ c.k <= Len(chans)
           /\ \E outcome \in EngineOutcomes(chans[c.k]),
                 log_fails \in {FALSE} \cup {faults < MaxFaults} :
                LET channel == chans[c.k]
                    warning == DetailWarnings(c.data[c.i])[c.w]
                    res == DispatcherSend(config, now % HoursPerDay, c.alert_id,
                                          warning.severity, channel, outcome, log_fails)
                    c2 == [c EXCEPT !.summary.notifications_sent =
                                        IF res.ret = "True" THEN @ + 1 ELSE @,
                                    !.summary.errors =
                                        IF res.ret = "raise" THEN Append(@, <<"send", "store">>)
                                        ELSE @]
                IN  /\ deliveries' = deliveries \o res.rows
                    /\ calls' = calls (+) SetToBag({<<c.run, c.alert_id, channel.id>>})
                    /\ hist' = [hist EXCEPT ![c.alert_id].live =
                                    @ /\ IsEnabledNow(loc_table, c.matches[c.m].location.id)]
                    /\ faults' = IF log_fails THEN faults + 1 ELSE faults
                    /\ cyc' = [cyc EXCEPT ![p] =
                                  IF c.k < Len(chans) THEN [c2 EXCEPT !.k = c.k + 1]
                                  ELSE AfterMatch(c2)]
    /\ UNCHANGED <<alerts, config, activity, loc_table, chan_table, now,
                   running, last_poll_result, runs, lastSend, otherVars>>

\* mark_expired_alerts: the SELECT
Sweep(p) ==
    /\ cyc[p].pc = "sweep"
    /\ LET c == cyc[p]
           ids == ExpiredSelect(alerts, now)
       IN  cyc' = [cyc EXCEPT ![p] =
                      IF ids = <<>> THEN AfterSweep(c, 0)
                      ELSE [c EXCEPT !.pc = "sweep_upd", !.pending = ids,
                                     !.expired_n = Len(ids)]]
    /\ UNCHANGED <<alerts, deliveries, config, activity, loc_table, chan_table, now,
                   running, last_poll_result, histVars, otherVars>>

\* mark_expired_alerts: one UPDATE
SweepUpdate(p) ==
    /\ cyc[p].pc = "sweep_upd"
    /\ LET c == cyc[p]
           rest == Tail(c.pending)
       IN  /\ alerts' = ExpireRow(alerts, Head(c.pending))
           /\ cyc' = [cyc EXCEPT ![p] =
                         IF rest = <<>> THEN AfterSweep(c, c.expired_n)
                         ELSE [c EXCEPT !.pending = rest]]
    /\ UNCHANGED <<deliveries, config, activity, loc_table, chan_table, now,
                   running, last_poll_result, histVars, otherVars>>

\* _process_trials returns 0 at once (no bot token, or no active trial) and
\* _expire_trials finds no trial; the cycle composes its result
ExpireTrials(p) ==
    /\ cyc[p].pc = "trials"
    /\ ~bot_token \/ get_active_trials(trials, now) = <<>>
    /\ DueTrials(trials, now) = <<>>
    /\ cyc' = [cyc EXCEPT ![p] = Compose(@)]
    /\ last_poll_result' = OkResult(cyc[p].summary)
    /\ UNCHANGED <<alerts, deliveries, config, activity, loc_table, chan_table, now,
                   running, histVars, otherVars>>

\* log_activity of the cycle's end, then the cycle returns
Log(p) ==
    /\ cyc[p].pc = "log"
    /\ LogActivity(cyc[p].logev)
    /\ cyc' = [cyc EXCEPT ![p] = Return(p, @)]
    /\ UNCHANGED <<alerts, deliveries, config, loc_table, chan_table, now,
                   running, last_poll_result, histVars, otherVars>>

\* PATCH /channels/{id} with enabled set (routes/channels.py)
update_channel(id, enabled) ==
    /\ \E i \in 1..Len(chan_table) : chan_table[i].id = id /\ chan_table[i].enabled # enabled
    /\ chan_table' = [i \in 1..Len(chan_table) |->
                         IF chan_table[i].id = id
                         THEN [chan_table[i] EXCEPT !.enabled = enabled]
                         ELSE chan_table[i]]
    /\ UNCHANGED <<alerts, deliveries, config, activity, loc_table, now, running,
                   last_poll_result, cyc, histVars, otherVars>>

\* PATCH /locations/{id} with enabled set (routes/locations.py)
update_location(id, enabled) ==
    /\ \E i \in 1..Len(loc_table) : loc_table[i].id = id /\ loc_table[i].enabled # enabled
    /\ loc_table' = [i \in 1..Len(loc_table) |->
                        IF loc_table[i].id = id
                        THEN [loc_table[i] EXCEPT !.enabled = enabled]
                        ELSE loc_table[i]]
    /\ UNCHANGED <<alerts, deliveries, config, activity, chan_table, now, running,
                   last_poll_result, cyc, histVars, otherVars>>

Next ==
    \/ Start
    \/ Stop
    \/ CheckNow
    \/ LoopInterval
    \/ LoopTimeout
    \/ update_channel(2, FALSE)
    \/ \E p \in Procs :
        \/ ListFails(p)
        \/ ListEmpty(p)
        \/ ListData(p)
        \/ Locs(p)
        \/ Chans(p)
        \/ DetailFails(p)
        \/ DetailOk(p)
        \/ Dup(p)
        \/ StoreInserts(p)
        \/ StoreRefused(p)
        \/ Send(p)
        \/ Sweep(p)
        \/ SweepUpdate(p)
        \/ ExpireTrials(p)
        \/ Log(p)

Spec == Init /\ [][Next]_vars

\* the engine with the admin surface disabling a location beside it
LocationNext ==
    \/ Next
    \/ update_location(2, FALSE)

LocationSpec == Init /\ [][LocationNext]_vars

----------------------------------------------------------------------------
(* The matcher on drawn inputs                                             *)

\* locations handed to one call of match_locations
MaxLocs == 2

\* areas of the warning handed to it
MaxAreas == 1

\* sequences over S of length up to n
SeqsUpTo(S, n) == UNION {[1..k -> S] : k \in 0..n}

SubdistrictNames == {<<>>, <<"a">>, <<"A", "b">>}

DistrictNames == {<<>>, <<"B">>}

Descriptions == {<<>>, <<"A">>, <<"b", "a">>, <<"x", "a", "B">>}

AreaNames == {<<"a">>, <<"k", "A", "b">>}

\* the rows a location list is drawn from; a row's id is its place in the list
LocationShapes ==
    [subdistrict_name : SubdistrictNames, district_name : DistrictNames, enabled : BOOLEAN]

LocationLists ==
    {[i \in 1..Len(shapes) |->
         [id |-> i, subdistrict_name |-> shapes[i].subdistrict_name,
          district_name |-> shapes[i].district_name, enabled |-> shapes[i].enabled]] :
     shapes \in SeqsUpTo(LocationShapes, MaxLocs)}

WarningInputs ==
    {Warning("Moderate", d, a, <<>>, FALSE) :
     d \in Descriptions, a \in SeqsUpTo(AreaNames, MaxAreas)}

MInit ==
    /\ EngineIdle
    /\ deliveries = <<>>
    /\ config = DefaultConfig
    /\ now = StartNow
    /\ lastSend = NoSend
    /\ m_warning \in WarningInputs
    /\ m_locations \in LocationLists
    /\ m_result = NoMatch
    /\ SideIdle

\* one call of match_locations
Match ==
    /\ ~m_result.done
    /\ m_result' = [done |-> TRUE, matches |-> match_locations(m_warning, m_locations)]
    /\ UNCHANGED <<engineVars, m_warning, m_locations, sideVars>>

MNext == Match

MatcherSpec == MInit /\ [][MNext]_vars

----------------------------------------------------------------------------
(* The dispatcher on drawn inputs                                          *)

\* send calls in one behaviour
MaxSends == 1

\* the alert ids a send call is made for
AlertIds == {1, 2}

Severities == {"Moderate", "Severe", "Extreme"}

\* the hours of the day (UTC) a behaviour is set at: 12, 22 and 06 in Jakarta
DispatchHours == {5, 15, 23}

\* the channels a send call is made for; "sms" is a type sender_map lacks
DispatchChannels ==
    { [id |-> 1, channel_type |-> "telegram", enabled |-> TRUE],
      [id |-> 3, channel_type |-> "sms", enabled |-> TRUE] }

\* the config tables a behaviour is set over
DispatchConfigs ==
    {[key \in ConfigKeys |->
         CASE key = "quiet_hours_enabled" -> e
           [] key = "quiet_hours_override_severe" -> o
           [] key = "quiet_hours_start" -> s
           [] key = "quiet_hours_end" -> n] :
     e \in {NoRow, Row("true"), Row("TRUE")},
     o \in {NoRow, Row("false")},
     s \in {NoRow, Row(<<"0", "6", ":", "0", "0">>), Row(<<"x", "x", ":", "0", "0">>)},
     n \in {NoRow, Row(<<"2", "2">>)}}

DInit ==
    /\ EngineIdle
    /\ deliveries = <<>>
    /\ config \in DispatchConfigs
    /\ now \in DispatchHours
    /\ lastSend = NoSend
    /\ MatcherIdle
    /\ SideIdle

\* one call of NotificationDispatcher.send
DSend ==
    /\ Len(deliveries) + faults < MaxSends
    /\ \E alert_id \in AlertIds, severity \in Severities,
          channel \in DispatchChannels, outcome \in SenderOutcomes, log_fails \in BOOLEAN :
           LET res == DispatcherSend(config, now % HoursPerDay, alert_id, severity,
                                     channel, outcome, log_fails)
           IN  /\ deliveries' = deliveries \o res.rows
               /\ faults' = IF log_fails THEN faults + 1 ELSE faults
               /\ lastSend' = SendRecord(alert_id, severity, channel, outcome, log_fails, res)
    /\ UNCHANGED <<alerts, config, activity, loc_table, chan_table, now, running,
                   last_poll_result, cyc, runs, hist, calls, otherVars>>

DNext == DSend

DispatchSpec == DInit /\ [][DNext]_vars

----------------------------------------------------------------------------
(* StateManager.mark_expired_alerts on drawn tables                        *)

\* rows of the alerts table at the start
MaxAlerts == 2

\* calls of mark_expired_alerts in one behaviour
MaxMarks == 2

\* the clock at the start of a behaviour that lets it advance, and the hour it
\* stops at: day 0, 21:00 to day 1, 01:00
ClockStart == 21
ClockEnd == 25

\* the expires values of the rows: none, 22:00 UTC, 23:00 and (the next day)
\* 00:00 at the offset of Jakarta, as the upstream serialises them
SweepStamps ==
    { <<>>,
      <<"0", "T", "2", "2", "+", "0", "0">>,
      <<"0", "T", "2", "3", "+", "0", "7">>,
      <<"1", "T", "0", "0", "+", "0", "7">> }

\* the row store_alert left for a warning with the given expires
SweepRow(id, expires) ==
    AlertRow(id, Warning("Moderate", <<>>, <<>>, expires, FALSE),
             MatchResult(LocationRows[id], "kecamatan", <<>>), "CBT1")

SweepTables ==
    UNION {{[i \in 1..n |-> SweepRow(i, f[i])] : f \in [1..n -> SweepStamps]} :
           n \in 1..MaxAlerts}

SInit ==
    /\ alerts \in SweepTables
    /\ now = ClockStart
    /\ mea = NoMark
    /\ marks = <<>>
    /\ deliveries = <<>>
    /\ config = DefaultConfig
    /\ activity = {}
    /\ loc_table = LocationRows
    /\ chan_table = ChannelRows
    /\ running = FALSE
    /\ last_poll_result = <<"none">>
    /\ cyc = [p \in Procs |-> IdleFrame]
    /\ runs = 0
    /\ hist = <<>>
    /\ calls = EmptyBag
    /\ faults = 0
    /\ lastSend = NoSend
    /\ MatcherIdle
    /\ TrialIdle
    /\ LifeIdle
    /\ RegIdle

\* what a call of mark_expired_alerts leaves alone
sweepFrame == <<deliveries, config, activity, loc_table, chan_table, running,
                last_poll_result, cyc, histVars, matcherVars, trialVars, lifeVars,
                regVars>>

\* an hour passes
Tick ==
    /\ now < ClockEnd
    /\ now' = now + 1
    /\ UNCHANGED <<alerts, mea, marks, sweepFrame>>

\* the record of a call that returned
MarkReturn(at, before, ret, after) ==
    [at |-> at, before |-> before, ret |-> ret, after |-> after]

\* mark_expired_alerts: the clock is read and the SELECT runs; with no row
\* found the call returns the empty list
MarkSelect ==
    /\ mea.pc = "idle"
    /\ Len(marks) < MaxMarks
    /\ LET rows == ExpiredRows(alerts, now)
       IN  IF rows = <<>>
           THEN /\ marks' = Append(marks, MarkReturn(now, alerts, <<>>, alerts))
                /\ mea' = mea
           ELSE /\ mea' = [pc |-> "update", at |-> now, before |-> alerts,
                           rows |-> rows, k |-> 1]
                /\ marks' = marks
    /\ UNCHANGED <<alerts, now, sweepFrame>>

\* mark_expired_alerts: the UPDATE of the next row; after the last one the
\* call returns the rows as the SELECT read them
MarkUpdate ==
    /\ mea.pc = "update"
    /\ alerts' = ExpireRow(alerts, mea.rows[mea.k].id)
    /\ IF mea.k = Len(mea.rows)
       THEN /\ marks' = Append(marks, MarkReturn(mea.at, mea.before, mea.rows, alerts'))
            /\ mea' = NoMark
       ELSE /\ mea' = [mea EXCEPT !.k = @ + 1]
            /\ marks' = marks
    /\ UNCHANGED <<now, sweepFrame>>

SNext ==
    \/ Tick
    \/ MarkSelect
    \/ MarkUpdate

SweepSpec == SInit /\ [][SNext]_vars

----------------------------------------------------------------------------
(* Trial subscriptions: expire_trials and the farewell messages            *)

\* rows of the trial_subscriptions table
MaxTrials == 2

\* calls of expire_trials in one behaviour
MaxExpiries == 2

\* routes/trial.py: TRIAL_DURATION_HOURS
TRIAL_DURATION_HOURS == 24

\* the Telegram chats that hold or ask for a trial
ChatIds == 1..MaxTrials

\* the trials of a table at the start: due an hour ago (told of it or not) or
\* due in an hour
TrialShapes ==
    {<<ClockStart - 1, FALSE>>, <<ClockStart - 1, TRUE>>, <<ClockStart + 1, FALSE>>}

TrialTables ==
    UNION {{[i \in 1..n |-> TrialRow(i, i, Timestamp(f[i][1]), f[i][2])] :
            f \in [1..n -> TrialShapes]} : n \in 1..MaxTrials}

TInit ==
    /\ EngineIdle
    /\ deliveries = <<>>
    /\ config = DefaultConfig
    /\ now = ClockStart
    /\ lastSend = NoSend
    /\ MatcherIdle
    /\ SweepIdle
    /\ trials \in TrialTables
    /\ bot_token \in BOOLEAN
    /\ xt = [p \in Procs |-> NoExpire]
    /\ expiries = <<>>
    /\ farewells = EmptyBag
    /\ LifeIdle
    /\ RegIdle

\* what the operations on trials leave alone
trialFrame == <<engineVars, matcherVars, sweepVars, lifeVars, regVars>>

\* the record of an expire_trials call that returned
ExpireReturn(p, at, before, ret, after) ==
    [by |-> p, at |-> at, before |-> before, ret |-> ret, after |-> after]

\* _expire_trials, expire_trials: the SELECT; with no row found expire_trials
\* returns the empty list and _expire_trials returns 0
TrialSelect(p) ==
    /\ xt[p].pc = "idle"
    /\ Len(expiries) + Cardinality({q \in Procs : xt[q].pc = "update"}) < MaxExpiries
    /\ LET rows == DueTrials(trials, now)
       IN  IF rows = <<>>
           THEN /\ expiries' = Append(expiries, ExpireReturn(p, now, trials, <<>>, trials))
                /\ xt' = xt
           ELSE /\ xt' = [xt EXCEPT ![p] = [pc |-> "update", at |-> now, before |-> trials,
                                            rows |-> rows, k |-> 0]]
                /\ expiries' = expiries
    /\ UNCHANGED <<trials, bot_token, farewells, trialFrame>>

\* expire_trials: the UPDATE, and the return of the rows as the SELECT read
\* them; without a bot token _expire_trials returns their number
TrialUpdate(p) ==
    /\ xt[p].pc = "update"
    /\ trials' = MarkNotified(trials, xt[p].rows)
    /\ expiries' = Append(expiries, ExpireReturn(p, xt[p].at, xt[p].before, xt[p].rows, trials'))
    /\ xt' = [xt EXCEPT ![p] = IF bot_token THEN [@ EXCEPT !.pc = "notify", !.k = 1]
                               ELSE NoExpire]
    /\ UNCHANGED <<bot_token, farewells, trialFrame>>

\* _expire_trials: telegram.send_raw of the farewell message to the next trial;
\* an exception of the sender is logged and the loop goes on
TrialFarewell(p) ==
    /\ xt[p].pc = "notify"
    /\ farewells' = farewells (+) SetToBag({xt[p].rows[xt[p].k].id})
    /\ xt' = [xt EXCEPT ![p] = IF @.k = Len(@.rows) THEN NoExpire
                               ELSE [@ EXCEPT !.k = @ + 1]]
    /\ UNCHANGED <<trials, bot_token, expiries, trialFrame>>

\* POST /trial/register with no other request between its queries and its
\* INSERT: refused while the chat has an active trial
register_trial(chat_id) ==
    /\ Len(trials) < MaxTrials
    /\ ~\E i \in 1..Len(trials) : /\ trials[i].telegram_chat_id = chat_id
                                  /\ StrLess(Timestamp(now), trials[i].expires_at)
    /\ trials' = Append(trials, TrialRow(Len(trials) + 1, chat_id,
                                         Timestamp(now + TRIAL_DURATION_HOURS), FALSE))
    /\ UNCHANGED <<now, bot_token, xt, expiries, farewells, trialFrame>>

\* DELETE /trial/{trial_id}: the trial is made to expire now
cancel_trial(id) ==
    /\ \E i \in 1..Len(trials) : trials[i].id = id /\ trials[i].expires_at # Timestamp(now)
    /\ trials' = [i \in 1..Len(trials) |->
                     IF trials[i].id = id
                     THEN [trials[i] EXCEPT !.expires_at = Timestamp(now)]
                     ELSE trials[i]]
    /\ UNCHANGED <<now, bot_token, xt, expiries, farewells, trialFrame>>

\* one task calls _expire_trials, cycle after cycle, while chats register and
\* the first trial is cancelled
TNext ==
    \/ Tick
    \/ TrialSelect("loop")
    \/ TrialUpdate("loop")
    \/ TrialFarewell("loop")
    \/ \E c \in ChatIds : register_trial(c)
    \/ cancel_trial(1)

TrialSpec == TInit /\ [][TNext]_vars

\* the cycle of check_now calls _expire_trials beside the loop's cycle
RaceNext ==
    \/ Tick
    \/ TrialSelect("loop")
    \/ TrialUpdate("loop")
    \/ TrialFarewell("loop")
    \/ TrialSelect("check")
    \/ TrialUpdate("check")
    \/ TrialFarewell("check")

TrialRaceSpec == TInit /\ [][RaceNext]_vars

----------------------------------------------------------------------------
(* POST /trial/register and DELETE /trial/{id}, await by await             *)

\* routes/trial.py: MAX_REGISTRATIONS_PER_IP
MAX_REGISTRATIONS_PER_IP == 5

\* a row of trial_subscriptions with the columns the registration, the
\* cancellation and the trial notifications read
TrialSubscription(id, chat_id, subdistrict_name, district_name, severity_threshold, registered_at, expires_at) ==
    [id |-> id, telegram_chat_id |-> chat_id, subdistrict_name |-> subdistrict_name,
     district_name |-> district_name, severity_threshold |-> severity_threshold,
     registered_at |-> registered_at, expires_at |-> expires_at,
     expired_notified |-> FALSE]

\* registered_at of a new row: the INSERT does not name the column, the table
\* fills it with the timestamp of the insert
RegisteredAtDefault(t) == Timestamp(t)

\* SELECT id FROM trial_subscriptions
\* WHERE telegram_chat_id = ? AND expires_at > CURRENT_TIMESTAMP
ActiveTrialOf(rows, chat_id, t) ==
    \E i \in 1..Len(rows) : /\ rows[i].telegram_chat_id = chat_id
                            /\ StrLess(Timestamp(t), rows[i].expires_at)

\* SELECT COUNT(*) ... WHERE ip_address = ? AND registered_at > datetime('now',
\* '-1 hour'), every request coming from the one address
RecentRegistrations(rows, t) ==
    Cardinality({i \in 1..Len(rows) : StrLess(Timestamp(t - 1), rows[i].registered_at)})

\* the table at the start: empty, or chat 1 holding a trial registered at hour
\* 0 that ends at hour 24, inside the window of the clock
RegTables ==
    {<<>>,
     <<TrialSubscription(1, 1, <<"A", "l">>, <<>>, "all", Timestamp(0),
                         Timestamp(TRIAL_DURATION_HOURS))>>}

RegInit ==
    /\ EngineIdle
    /\ deliveries = <<>>
    /\ config = DefaultConfig
    /\ now = ClockStart
    /\ lastSend = NoSend
    /\ MatcherIdle
    /\ SweepIdle
    /\ trials \in RegTables
    /\ bot_token = FALSE
    /\ xt = [p \in Procs |-> NoExpire]
    /\ expiries = <<>>
    /\ farewells = EmptyBag
    /\ LifeIdle
    /\ RegIdle

\* what the requests on trials leave alone
regFrame == <<engineVars, matcherVars, sweepVars, lifeVars, bot_token, xt, expiries,
              farewells, notices>>

\* register_trial up to the answer of its first query: 409 when the chat has
\* an active trial
RegCheck(r, chat_id) ==
    /\ rg[r].pc = "idle"
    /\ rg' = [rg EXCEPT ![r] = [pc |-> IF ActiveTrialOf(trials, chat_id, now)
                                       THEN "refused" ELSE "rate",
                                chat_id |-> chat_id]]
    /\ UNCHANGED <<trials, regFrame>>

\* register_trial: the answer of the rate-limit query: 429 at the limit
RegRate(r) ==
    /\ rg[r].pc = "rate"
    /\ rg' = [rg EXCEPT ![r].pc = IF RecentRegistrations(trials, now)
                                        >= MAX_REGISTRATIONS_PER_IP
                                  THEN "limited" ELSE "insert"]
    /\ UNCHANGED <<trials, regFrame>>

\* register_trial: the INSERT, with expires_at computed from the clock now
RegInsert(r) ==
    /\ rg[r].pc = "insert"
    /\ trials' = Append(trials,
                        TrialSubscription(Len(trials) + 1, rg[r].chat_id, <<"A", "l">>, <<>>,
                                          "all", RegisteredAtDefault(now),
                                          Timestamp(now + TRIAL_DURATION_HOURS)))
    /\ rg' = [rg EXCEPT ![r].pc = "done"]
    /\ UNCHANGED regFrame

\* requests registering and cancelling while the clock runs
RegNext ==
    \/ Tick
    \/ \E r \in Regs :
        \/ \E c \in ChatIds : RegCheck(r, c)
        \/ RegRate(r)
        \/ RegInsert(r)
    \/ \E id \in 1..(MaxRegs + 1) : cancel_trial(id)

RegisterSpec == RegInit /\ [][RegNext]_vars

----------------------------------------------------------------------------
(* check_now cycles one after the other, with trial subscribers            *)

\* what the steps of _process_trials leave alone
noticeFrame == <<alerts, deliveries, config, activity, loc_table, chan_table, now,
                 running, last_poll_result, histVars, matcherVars, sweepVars, trialVars,
                 lifeVars, rg>>

\* _process_trials keeping to the trials no earlier send went to
TrialsFetchUnnotified(p) ==
    /\ cyc[p].pc = "trials"
    /\ bot_token
    /\ get_active_trials(trials, now) # <<>>
    /\ cyc' = [cyc EXCEPT ![p] =
                  [@ EXCEPT !.pc = "tdetail", !.i = 1, !.pending = <<>>,
                            !.active = SelectSeq(get_active_trials(trials, now),
                                                 LAMBDA t : \A n \in 1..Len(notices) :
                                                                notices[n].trial # t.id)]]
    /\ UNCHANGED <<notices, noticeFrame>>

\* _process_trials: a bot token is set and get_active_trials returns trials;
\* the item loop reaches its first detail fetch
TrialsFetch(p) ==
    /\ cyc[p].pc = "trials"
    /\ bot_token
    /\ get_active_trials(trials, now) # <<>>
    /\ cyc' = [cyc EXCEPT ![p] = [@ EXCEPT !.pc = "tdetail", !.i = 1, !.pending = <<>>,
                                           !.active = get_active_trials(trials, now)]]
    /\ UNCHANGED <<notices, noticeFrame>>

\* _process_trials: get_nowcast_detail raises and the item is skipped
TrialDetailFails(p) ==
    /\ cyc[p].pc = "tdetail"
    /\ cyc' = [cyc EXCEPT ![p] = TrialNextItem([@ EXCEPT !.unfetched = @ \cup {cyc[p].i}])]
    /\ UNCHANGED <<notices, noticeFrame>>

\* _process_trials: get_nowcast_detail returns; the loops over warnings and
\* trials run up to the first send_raw
TrialDetailOk(p) ==
    /\ cyc[p].pc = "tdetail"
    /\ LET c == cyc[p]
           sends == TrialSends(DetailWarnings(c.data[c.i]), c.active)
       IN  cyc' = [cyc EXCEPT ![p] = IF sends = <<>> THEN TrialNextItem(c)
                                     ELSE [c EXCEPT !.pc = "tsend", !.pending = sends]]
    /\ UNCHANGED <<notices, noticeFrame>>

\* what telegram.send_raw can do
RawOutcomes == {"True", "False", "raise"}

\* _process_trials: telegram.send_raw for the next (warning, trial); a false
\* return and an exception leave the counter alone
TrialSend(p) ==
    /\ cyc[p].pc = "tsend"
    /\ \E outcome \in RawOutcomes :
        LET c == cyc[p]
            x == Head(c.pending)
            warning == DetailWarnings(c.data[c.i])[x[1]]
            trial == c.active[x[2]]
            rest == Tail(c.pending)
            c2 == [c EXCEPT !.sent_count = IF outcome = "True" THEN @ + 1 ELSE @]
        IN  /\ notices' = Append(notices, [run |-> c.run, code |-> c.data[c.i], w |-> x[1],
                                           trial |-> trial.id,
                                           severity |-> warning.severity,
                                           threshold |-> trial.severity_threshold,
                                           ok |-> outcome = "True"])
            /\ cyc' = [cyc EXCEPT ![p] = IF rest = <<>> THEN TrialNextItem(c2)
                                         ELSE [c2 EXCEPT !.pending = rest]]
    /\ UNCHANGED noticeFrame

\* _expire_trials after the trial notifications: expire_trials finds no trial;
\* the cycle composes its result
TrialsExpire(p) ==
    /\ cyc[p].pc = "texpire"
    /\ DueTrials(trials, now) = <<>>
    /\ cyc' = [cyc EXCEPT ![p] = Compose(@)]
    /\ last_poll_result' = OkResult(cyc[p].summary)
    /\ UNCHANGED <<alerts, deliveries, config, activity, loc_table, chan_table, now,
                   running, histVars, otherVars>>

\* the locations table with every location disabled
NoEnabledLocations == [i \in 1..Len(LocationRows) |-> [LocationRows[i] EXCEPT !.enabled = FALSE]]

\* an alert of an earlier day, still active, whose expires has passed
OldAlert ==
    [id |-> 1, bmkg_alert_code |-> "CBT0", severity |-> "Moderate",
     expires |-> <<"0", "T", "1", "0">>, matched_location_id |-> 1,
     match_type |-> "kecamatan", matched_text |-> <<"A", "l">>, status |-> "active"]

\* the history row of an alert no cycle of the behaviour inserted
OldHist == [by |-> 0, cut |-> FALSE, at |-> <<0, 0, 0>>, live |-> TRUE, chans |-> <<>>]

\* the thresholds a trial is registered with (severity_min is free text)
Thresholds == {"all", "minor", "moderate", "Severe", "extreme"}

\* the places a trial names: Al by its subdistrict (in the description of the
\* moderate warning), Ke by its district (in the area of the severe one)
TrialPlaces == {<< <<"A", "l">>, <<>> >>, << <<>>, <<"K", "e">> >>}

\* the trial table of a behaviour: empty, or one trial registered an hour ago
CycleTrials ==
    {<<>>} \cup
    {<<TrialSubscription(1, 1, pl[1], pl[2], th, Timestamp(StartNow - 1),
                         Timestamp(StartNow - 1 + TRIAL_DURATION_HOURS))>> :
        pl \in TrialPlaces, th \in Thresholds}

CycleInit ==
    /\ alerts \in {<<>>, <<OldAlert>>}
    /\ hist = [a \in 1..Len(alerts) |-> OldHist]
    /\ loc_table \in {LocationRows, NoEnabledLocations}
    /\ trials \in CycleTrials
    /\ bot_token \in BOOLEAN
    /\ activity = {}
    /\ chan_table = ChannelRows
    /\ running = FALSE
    /\ last_poll_result = <<"none">>
    /\ cyc = [p \in Procs |-> IdleFrame]
    /\ runs = 0
    /\ calls = EmptyBag
    /\ faults = 0
    /\ deliveries = <<>>
    /\ config = EngineConfig
    /\ now = StartNow
    /\ lastSend = NoSend
    /\ MatcherIdle
    /\ SweepIdle
    /\ xt = [p \in Procs |-> NoExpire]
    /\ expiries = <<>>
    /\ farewells = EmptyBag
    /\ LifeIdle
    /\ RegIdle

\* the engine is not started; check_now is called again and again
CycleNext ==
    \/ CheckNow
    \/ ListFails("check")
    \/ ListEmpty("check")
    \/ ListData("check")
    \/ Locs("check")
    \/ Chans("check")
    \/ DetailFails("check")
    \/ DetailOk("check")
    \/ Dup("check")
    \/ StoreInserts("check")
    \/ Send("check")
    \/ Sweep("check")
    \/ SweepUpdate("check")
    \/ ExpireTrials("check")
    \/ TrialsFetch("check")
    \/ TrialDetailFails("check")
    \/ TrialDetailOk("check")
    \/ TrialSend("check")
    \/ TrialsExpire("check")
    \/ Log("check")

CycleSpec == CycleInit /\ [][CycleNext]_vars

----------------------------------------------------------------------------
(* AlertEngine.start, AlertEngine.stop and the tasks of _poll_loop          *)

\* start() and stop() calls in one behaviour
MaxCalls == 5

\* loop tasks created in one behaviour
MaxTasks == 3

\* the default _poll_loop passes for poll_interval
PollIntervalDefault == <<"3", "0", "0">>

\* the rows of the config table for poll_interval: none, a number, not a number
PollIntervalRows == {NoRow, Row(<<"6", "0">>), Row(<<"5", "m">>)}

LifeConfigs ==
    {[key \in ConfigKeys \cup {"poll_interval"} |->
         IF key = "poll_interval" THEN r ELSE NoRow] : r \in PollIntervalRows}

LInit ==
    /\ EngineIdle
    /\ deliveries = <<>>
    /\ config \in LifeConfigs
    /\ now = StartNow
    /\ lastSend = NoSend
    /\ MatcherIdle
    /\ SweepIdle
    /\ TrialIdle
    /\ LifeIdle
    /\ RegIdle

\* what start(), stop() and the loop leave alone
lifeFrame == <<alerts, deliveries, config, loc_table, chan_table, now, cyc, histVars,
               matcherVars, sweepVars, trialVars, regVars>>

\* asyncio.create_task(self._poll_loop()): the task has not run yet
NewTask == [st |-> "new", cancel |-> FALSE, how |-> "none", was |-> "none"]

\* task t done: cancelled, returned, or ended by an exception, at the point of
\* _poll_loop it was at
Done(t, how) == [st |-> "dead", cancel |-> FALSE, how |-> how, was |-> tasks[t].st]

\* a call suspended at an await; t is the task a stop() awaits
Call(op, pc, t) == [op |-> op, pc |-> pc, t |-> t]

\* the task can still run code of _poll_loop
Live(t) == tasks[t].st # "dead" /\ ~tasks[t].cancel

StopInFlight == \E f \in BagToSet(reqs) : f.op = "stop"

\* AlertEngine.get_status
get_status == [running |-> running, last_poll_result |-> last_poll_result]

\* start() creating the task whatever _running is
StartCallUnguarded ==
    /\ ncalls < MaxCalls
    /\ ncalls' = ncalls + 1
    /\ Len(tasks) < MaxTasks
    /\ running' = TRUE
    /\ stop_event' = FALSE
    /\ tasks' = Append(tasks, NewTask)
    /\ task' = Len(tasks) + 1
    /\ reqs' = reqs (+) SetToBag({Call("start", "log", 0)})
    /\ UNCHANGED <<activity, last_poll_result, lifeFrame>>

\* start() up to its await: nothing when running, else the flag is set, the
\* event cleared and the loop task created
StartCall ==
    /\ ncalls < MaxCalls
    /\ ncalls' = ncalls + 1
    /\ IF running
       THEN UNCHANGED <<running, stop_event, task, tasks, reqs>>
       ELSE /\ Len(tasks) < MaxTasks
            /\ running' = TRUE
            /\ stop_event' = FALSE
            /\ tasks' = Append(tasks, NewTask)
            /\ task' = Len(tasks) + 1
            /\ reqs' = reqs (+) SetToBag({Call("start", "log", 0)})
    /\ UNCHANGED <<activity, last_poll_result, lifeFrame>>

\* start(): log_activity("engine_started") and the return
StartLog ==
    /\ BagIn(Call("start", "log", 0), reqs)
    /\ reqs' = reqs (-) SetToBag({Call("start", "log", 0)})
    /\ LogActivity("engine_started")
    /\ UNCHANGED <<running, last_poll_result, stop_event, task, tasks, ncalls, lifeFrame>>

\* stop() up to its await: nothing when not running; else the flag is cleared,
\* the event set and the task, if there is one, cancelled and awaited.  A task
\* that is done is awaited without suspending: its exception, if it ended by
\* one, leaves stop().
StopCall ==
    /\ ncalls < MaxCalls
    /\ ncalls' = ncalls + 1
    /\ IF ~running
       THEN UNCHANGED <<running, stop_event, task, tasks, reqs>>
       ELSE /\ running' = FALSE
            /\ stop_event' = TRUE
            /\ IF task = 0
               THEN /\ reqs' = reqs (+) SetToBag({Call("stop", "log", 0)})
                    /\ UNCHANGED <<task, tasks>>
               ELSE IF tasks[task].st = "dead"
               THEN IF tasks[task].how = "raised"
                    THEN UNCHANGED <<task, tasks, reqs>>
                    ELSE /\ task' = 0
                         /\ reqs' = reqs (+) SetToBag({Call("stop", "log", 0)})
                         /\ UNCHANGED tasks
               ELSE /\ tasks' = [tasks EXCEPT ![task].cancel = TRUE]
                    /\ reqs' = reqs (+) SetToBag({Call("stop", "await", task)})
                    /\ UNCHANGED task
    /\ UNCHANGED <<activity, last_poll_result, lifeFrame>>

\* stop() going on without waiting for the task it cancelled
StopResumeEarly ==
    \E f \in BagToSet(reqs) :
        /\ f.op = "stop" /\ f.pc = "await"
        /\ task' = 0
        /\ reqs' = (reqs (-) SetToBag({f})) (+) SetToBag({Call("stop", "log", 0)})
        /\ UNCHANGED <<running, activity, last_poll_result, stop_event, tasks, ncalls,
                       lifeFrame>>

\* stop(): the awaited task is done; _task is set to None
StopResume ==
    \E f \in BagToSet(reqs) :
        /\ f.op = "stop" /\ f.pc = "await"
        /\ tasks[f.t].st = "dead"
        /\ task' = 0
        /\ reqs' = (reqs (-) SetToBag({f})) (+) SetToBag({Call("stop", "log", 0)})
        /\ UNCHANGED <<running, activity, last_poll_result, stop_event, tasks, ncalls,
                       lifeFrame>>

\* stop(): log_activity("engine_stopped") and the return
StopLog ==
    /\ BagIn(Call("stop", "log", 0), reqs)
    /\ reqs' = reqs (-) SetToBag({Call("stop", "log", 0)})
    /\ LogActivity("engine_stopped")
    /\ UNCHANGED <<running, last_poll_result, stop_event, task, tasks, ncalls, lifeFrame>>

\* the CancelledError of task.cancel() is raised at the await the task is
\* suspended at (or before its first step) and ends the task
LoopCancelled(t) ==
    /\ t <= Len(tasks)
    /\ tasks[t].st # "dead"
    /\ tasks[t].cancel
    /\ tasks' = [tasks EXCEPT ![t] = Done(t, "cancelled")]
    /\ UNCHANGED <<running, activity, last_poll_result, stop_event, task, reqs, ncalls,
                   lifeFrame>>

\* the condition of the while loop
LoopTest(t) == IF running THEN [tasks[t] EXCEPT !.st = "cycle"] ELSE Done(t, "returned")

\* _poll_loop: the first test of `while self._running`
LoopEnter(t) ==
    /\ t <= Len(tasks)
    /\ tasks[t].st = "new"
    /\ ~tasks[t].cancel
    /\ tasks' = [tasks EXCEPT ![t] = LoopTest(t)]
    /\ UNCHANGED <<running, activity, last_poll_result, stop_event, task, reqs, ncalls,
                   lifeFrame>>

\* the ways a cycle ends: it returns, it fails and logs poll_error, or it fails
\* and log_activity fails too (caught by `except Exception` of _poll_loop)
CycleOutcomes == {"ok", "error", "log_error"}

\* _poll_loop: _run_poll_cycle ends, by return or by an exception that is caught
LoopCycle(t) ==
    /\ t <= Len(tasks)
    /\ tasks[t].st = "cycle"
    /\ ~tasks[t].cancel
    /\ \E outcome \in CycleOutcomes :
           last_poll_result' = IF outcome = "ok" THEN OkResult(EmptySummary)
                               ELSE <<"error">>
    /\ tasks' = [tasks EXCEPT ![t].st = "interval"]
    /\ UNCHANGED <<running, activity, stop_event, task, reqs, ncalls, lifeFrame>>

\* int(await get_config_value("poll_interval", "300")), outside every try:
\* an exception of the store or of int() ends the task
ReadInterval(t, store_ok) ==
    IF store_ok /\ IntOf(get_config_value(config, "poll_interval", PollIntervalDefault))
                       # ValueError
    THEN [tasks[t] EXCEPT !.st = "wait"]
    ELSE Done(t, "raised")

\* _poll_loop: poll_interval is read
LoopReadInterval(t) ==
    /\ t <= Len(tasks)
    /\ tasks[t].st = "interval"
    /\ ~tasks[t].cancel
    /\ \E store_ok \in BOOLEAN : tasks' = [tasks EXCEPT ![t] = ReadInterval(t, store_ok)]
    /\ UNCHANGED <<running, activity, last_poll_result, stop_event, task, reqs, ncalls,
                   lifeFrame>>

\* _poll_loop: wait_for(self._stop_event.wait(), timeout) returns (break) when
\* the event is set, else times out (continue, and the while condition is tested)
LoopWait(t) ==
    /\ t <= Len(tasks)
    /\ tasks[t].st = "wait"
    /\ ~tasks[t].cancel
    /\ tasks' = [tasks EXCEPT ![t] = IF stop_event THEN Done(t, "returned") ELSE LoopTest(t)]
    /\ UNCHANGED <<running, activity, last_poll_result, stop_event, task, reqs, ncalls,
                   lifeFrame>>

LoopStep ==
    \E t \in 1..MaxTasks :
        \/ LoopCancelled(t)
        \/ LoopEnter(t)
        \/ LoopCycle(t)
        \/ LoopReadInterval(t)
        \/ LoopWait(t)

\* request handlers call start() and stop() at any time
LNext ==
    \/ StartCall
    \/ StartLog
    \/ StopCall
    \/ StopResume
    \/ StopLog
    \/ LoopStep

LifecycleSpec == LInit /\ [][LNext]_vars

\* start() is not called while a stop() is suspended
SerialStart == ~StopInFlight /\ StartCall

SerialNext ==
    \/ SerialStart
    \/ StartLog
    \/ StopCall
    \/ StopResume
    \/ StopLog
    \/ LoopStep

\* the event loop runs a cancelled task and a stop() whose await is over
SerialSpec ==
    /\ LInit
    /\ [][SerialNext]_vars
    /\ WF_vars(\E t \in 1..MaxTasks : LoopCancelled(t))
    /\ WF_vars(StopResume)
    /\ WF_vars(StopLog)

----------------------------------------------------------------------------
(* Properties of the engine, under Spec                                    *)

\* the pair a row of alerts is keyed by
PairOf(row) == <<row.bmkg_alert_code, row.matched_location_id>>

\* C1: in every reachable state the alerts table holds at most one row per pair
\* (bmkg_alert_code, matched_location_id), whatever cycles have run, a check_now
\* cycle overlapping a loop cycle between is_duplicate and store_alert included.
C1_OneRowPerPair ==
    \A i, j \in 1..Len(alerts) : PairOf(alerts[i]) = PairOf(alerts[j]) => i = j

\* reached: a cycle passed is_duplicate for a pair, the racing cycle inserted the
\* pair, and the first cycle's store_alert was refused
C1_Race ==
    \E p \in Procs : \E x \in cyc[p].collided :
        \E a \in 1..Len(alerts) :
            /\ PairOf(alerts[a]) = <<cyc[p].data[x[1]], x[3]>>
            /\ hist[a].by # cyc[p].run

\* the matches (item, warning, location id) the item loop finds in item i
ItemMatches(c, i) ==
    LET warnings == DetailWarnings(c.data[i])
    IN  UNION {IF warnings[w].is_expired THEN {}
               ELSE LET ms == match_locations(warnings[w], c.locations)
                    IN  {<<i, w, ms[k].location.id>> : k \in 1..Len(ms)} :
               w \in 1..Len(warnings)}

\* C2: a cycle whose store_alert was refused for a pair a racing cycle inserted
\* counts the match in duplicates_skipped, keeps it out of summary.errors, and
\* has gone through every match of every warning of that item by the time it
\* leaves the item loop.
C2_CollisionCountedAsDuplicate ==
    \A p \in Procs :
        LET c == cyc[p]
        IN  c.collided # {} =>
                /\ \A e \in 1..Len(c.summary.errors) :
                       c.summary.errors[e][2] # "IntegrityError"
                /\ c.summary.duplicates_skipped >= Cardinality(c.collided)
                /\ c.pc \in {"sweep", "sweep_upd", "trials", "log"} =>
                       \A x \in c.collided : ItemMatches(c, x[1]) \subseteq c.checked

\* the dedup check of task p is at a pair that has a row
DupAtExistingPair(p) ==
    /\ cyc[p].pc = "dup"
    /\ \E a \in 1..Len(alerts) :
           PairOf(alerts[a]) = <<cyc[p].data[cyc[p].i], cyc[p].matches[cyc[p].m].location.id>>

Dispatching(a) ==
    \E p \in Procs :
        cyc[p].pc = "send" /\ cyc[p].alert_id = a /\ cyc[p].run = hist[a].by

\* C4: every dispatcher.send call is made by the cycle that inserted the alert,
\* for a channel of the list that cycle read at its start, and once only; and
\* when that cycle has left the channel loop without being cancelled in it,
\* each channel of the list has had its call.
C4_OneCallPerChannel ==
    /\ \A call \in BagToSet(calls) :
           /\ call[2] \in 1..Len(hist)
           /\ hist[call[2]].by = call[1]
           /\ \E j \in 1..Len(hist[call[2]].chans) : hist[call[2]].chans[j] = call[3]
           /\ CopiesIn(call, calls) = 1
    /\ \A a \in 1..Len(hist) :
           (~Dispatching(a) /\ ~hist[a].cut) =>
               \A j \in 1..Len(hist[a].chans) :
                   CopiesIn(<<hist[a].by, a, hist[a].chans[j]>>, calls) = 1

\* reached: a cycle read two channels, the second was disabled while the cycle
\* ran, and the cycle has made its two calls for an alert it inserted
C4_BothChannelsCalled ==
    \E a \in 1..Len(hist) :
        /\ ~Dispatching(a)
        /\ ~hist[a].cut
        /\ hist[a].chans = <<1, 2>>
        /\ ~chan_table[2].enabled
        /\ CopiesIn(<<hist[a].by, a, 1>>, calls) = 1
        /\ CopiesIn(<<hist[a].by, a, 2>>, calls) = 1

\* C5: with a store that refuses no insert, every alert whose inserting cycle
\* is no longer in its channel loop (it went on, or stop() cancelled it there)
\* has a delivery row for each channel enabled in that cycle.
C5_EveryChannelLogged ==
    faults = 0 =>
        \A a \in 1..Len(hist) :
            ~Dispatching(a) =>
                \A j \in 1..Len(hist[a].chans) :
                    \E d \in 1..Len(deliveries) :
                        /\ deliveries[d].alert_id = a
                        /\ deliveries[d].channel_id = hist[a].chans[j]

\* C11 (under LocationSpec): no alert is stored, and no dispatcher call is
\* made, for a location whose enabled flag in the locations table is false at
\* that moment, a location disabled while the cycle that read it is in flight
\* included.
C11_OnlyEnabledLocations == \A a \in 1..Len(hist) : hist[a].live

\* the ids of the alerts in the table
AlertIdsOf(rows) == {rows[i].id : i \in 1..Len(rows)}

\* C12: in every step every alert stays in the table under its id, a row that
\* is 'expired' stays 'expired', and a status that changes goes from 'active'
\* to 'expired'.
C12_StatusOnlyAdvances ==
    [][ /\ AlertIdsOf(alerts) \subseteq AlertIdsOf(alerts')
        /\ Len(alerts') >= Len(alerts)
        /\ \A i \in 1..Len(alerts) :
               /\ alerts'[i].id = alerts[i].id
               /\ alerts[i].status = "expired" => alerts'[i].status = "expired"
               /\ alerts'[i].status # alerts[i].status =>
                      alerts[i].status = "active" /\ alerts'[i].status = "expired"
      ]_vars

\* reached: two overlapping sweeps both selected alert 1; one has expired it
\* and the other still holds it for its own UPDATE, next to an active alert 2
C12_SecondUpdatePending ==
    /\ Len(alerts) = 2
    /\ alerts[1].status = "expired"
    /\ alerts[2].status = "active"
    /\ \E p \in Procs : cyc[p].pc = "sweep_upd" /\ Head(cyc[p].pending) = 1

----------------------------------------------------------------------------
(* Properties of the expiry sweep, under SweepSpec                         *)

\* the instant a stamp <day>T<hh>+<oo> names, in hours since the epoch (UTC)
Instant(stamp) ==
    DigitVal(stamp[1]) * HoursPerDay + DigitVal(stamp[3]) * 10 + DigitVal(stamp[4])
        - (DigitVal(stamp[6]) * 10 + DigitVal(stamp[7]))

\* the clock readings of the calls that have updated the row so far
ExpiredBy(id) ==
    {marks[n].at : n \in {n \in 1..Len(marks) :
                             \E j \in 1..Len(marks[n].ret) : marks[n].ret[j].id = id}}
    \cup (IF mea.pc = "update" /\ \E j \in 1..(mea.k - 1) : mea.rows[j].id = id
          THEN {mea.at} ELSE {})

\* C13: every alert whose status is 'expired' has a non-empty expires, smaller
\* as text than the timestamp of the sweep that expired it and naming an
\* instant before that sweep's clock reading; an alert with an empty expires
\* is active in every state.
C13_ExpiredOnlyWhenPast ==
    \A i \in 1..Len(alerts) :
        /\ alerts[i].status = "expired" =>
               /\ alerts[i].expires # <<>>
               /\ ExpiredBy(alerts[i].id) # {}
               /\ \A t \in ExpiredBy(alerts[i].id) :
                      /\ StrLess(alerts[i].expires, IsoFormat(t))
                      /\ Instant(alerts[i].expires) < t
        /\ alerts[i].expires = <<>> => alerts[i].status = "active"

\* a row stamped at Jakarta's offset has been expired and a row without
\* expires has outlived the last sweep at the last hour
C13_OffsetRowExpired ==
    /\ Len(alerts) = 2
    /\ alerts[1].status = "expired"
    /\ alerts[1].expires = <<"0", "T", "2", "3", "+", "0", "7">>
    /\ alerts[2].expires = <<>>
    /\ Len(marks) = MaxMarks
    /\ now = ClockEnd

\* the rows of a table that are active with a non-empty expires that is, as
\* text, at or after the timestamp of hour t0 and before the timestamp of hour t1
DueBetween(rows, t0, t1) ==
    SelectSeq(rows, LAMBDA r : /\ r.status = "active"
                               /\ r.expires # <<>>
                               /\ t0 >= 0 => ~StrLess(r.expires, IsoFormat(t0))
                               /\ StrLess(r.expires, IsoFormat(t1)))

\* the table with the status of the given rows set to 'expired' and nothing
\* else changed
WithExpired(rows, ret) ==
    [i \in 1..Len(rows) |->
        IF \E j \in 1..Len(ret) : ret[j].id = rows[i].id
        THEN [rows[i] EXCEPT !.status = "expired"] ELSE rows[i]]

----------------------------------------------------------------------------
(* Properties of the trial expiry, under TrialSpec and TrialRaceSpec       *)

\* the instant a stamp <day> <hh> names, in hours since the epoch (UTC)
TrialInstant(stamp) ==
    DigitVal(stamp[1]) * HoursPerDay + DigitVal(stamp[3]) * 10 + DigitVal(stamp[4])

\* the trials of a table that are due at hour t and not yet told of it
DueRef(rows, t) ==
    SelectSeq(rows, LAMBDA r : TrialInstant(r.expires_at) <= t /\ ~r.expired_notified)

Notified(rows, id) == \E i \in 1..Len(rows) : rows[i].id = id /\ rows[i].expired_notified

\* the table with expired_notified set on the given trials and nothing else
\* changed
WithNotified(rows, ret) ==
    [i \in 1..Len(rows) |->
        IF \E j \in 1..Len(ret) : ret[j].id = rows[i].id
        THEN [rows[i] EXCEPT !.expired_notified = TRUE] ELSE rows[i]]

\* what C15 says of the calls that have returned
C15_Calls ==
    /\ \A n \in 1..Len(expiries) :
           /\ expiries[n].ret = DueRef(expiries[n].before, expiries[n].at)
           /\ \A j \in 1..Len(expiries[n].ret) :
                  /\ ~expiries[n].ret[j].expired_notified
                  /\ Notified(expiries[n].after, expiries[n].ret[j].id)
                  /\ Notified(trials, expiries[n].ret[j].id)
    /\ \A n \in 2..Len(expiries) :
           /\ \A j \in 1..Len(expiries[n].ret) :
                  ~\E k \in 1..Len(expiries[n - 1].ret) :
                       expiries[n - 1].ret[k].id = expiries[n].ret[j].id
           /\ ( /\ expiries[n].before =
                         WithNotified(expiries[n - 1].before, expiries[n - 1].ret)
                  /\ expiries[n].at = expiries[n - 1].at )
                  => expiries[n].ret = <<>>

C16_OneFarewellPerTrial ==
    /\ \A n, m \in 1..Len(expiries) :
           n # m => ~\E j \in 1..Len(expiries[n].ret), k \in 1..Len(expiries[m].ret) :
                        expiries[n].ret[j].id = expiries[m].ret[k].id
    /\ \A id \in 1..MaxTrials : CopiesIn(id, farewells) <= 1

----------------------------------------------------------------------------
(* Properties of start() and stop(), under SerialSpec and LifecycleSpec    *)

\* what C17 says of one step
C17_Step ==
    /\ (StartCall /\ ~running) =>
           /\ running'
           /\ Len(tasks') = Len(tasks) + 1
           /\ task' = Len(tasks')
           /\ tasks'[task'] = NewTask
           /\ \A t \in 1..Len(tasks) : tasks'[t] = tasks[t]
    /\ (StartCall /\ running) =>
           UNCHANGED <<running, stop_event, task, tasks, reqs, activity, last_poll_result>>
    /\ (StopCall /\ running) => ~running'
    /\ StopLog => ~running'
    /\ (StopCall /\ ~running) =>
           UNCHANGED <<running, stop_event, task, tasks, reqs, activity, last_poll_result>>

\* C17 (start() not called while a stop() is suspended): the engine starts
\* with running = false; start() on a stopped engine sets running and creates
\* exactly one loop task; start() on a running engine changes nothing and
\* creates no task; stop() on a running engine clears running, and running is
\* false when it returns; stop() on a stopped engine changes nothing and logs
\* no engine_stopped; get_status().running is the running flag in every state.
C17_StartStopStateMachine ==
    /\ ~running
    /\ [][C17_Step]_vars
    /\ [](get_status.running = running)

\* four calls made one task: a start() and a stop() that acted, then a start()
\* on the running engine and a stop() on the stopped engine that did nothing
C17_NoOpCallsMade ==
    /\ ncalls = 4
    /\ Len(tasks) = 1
    /\ activity = {"engine_started", "engine_stopped"}
    /\ reqs = EmptyBag
    /\ ~running

\* C18 (under LifecycleSpec): whatever the interleaving of start() and stop()
\* calls, at most one loop task that can still run exists, and at most one
\* loop task is inside a cycle.
C18_OneLiveLoopTask ==
    /\ Cardinality({t \in 1..Len(tasks) : Live(t)}) <= 1
    /\ Cardinality({t \in 1..Len(tasks) : Live(t) /\ tasks[t].st = "cycle"}) <= 1

\* C19 (start() not called while a stop() is suspended): a stop() that is
\* suspended returns, whether the loop task was waiting or inside a cycle;
\* and when no stop() is suspended and running is false, every loop task is
\* done, so no step of the loop is taken until a start() sets running.
C19_StopTerminates ==
    /\ StopInFlight ~> ~StopInFlight
    /\ []((~running /\ ~StopInFlight) => \A t \in 1..Len(tasks) : tasks[t].st = "dead")
    /\ [][(\E t \in 1..MaxTasks : LoopEnter(t) \/ LoopCycle(t) \/ LoopReadInterval(t)
                                      \/ LoopWait(t)) => running \/ StopInFlight]_vars

\* two stop() calls have returned: one cancelled a task that was waiting
\* between cycles, the other a task inside a cycle
C19_StoppedMidCycle ==
    /\ ~running
    /\ reqs = EmptyBag
    /\ Len(tasks) = 2
    /\ tasks[1].how = "cancelled" /\ tasks[1].was = "wait"
    /\ tasks[2].how = "cancelled" /\ tasks[2].was = "cycle"
    /\ "engine_stopped" \in activity

\* C20 (under LifecycleSpec): while running is true the task _task names is
\* not done, and no loop task is ended by an exception.
C20_LoopOutlivesFailures ==
    /\ \A t \in 1..Len(tasks) : tasks[t].how # "raised"
    /\ (running /\ task # 0) => tasks[task].st # "dead"

----------------------------------------------------------------------------
(* Properties of the dispatcher, under DispatchSpec                        *)

\* the latest send call returned to its caller
Returned == lastSend.ret \in {"True", "False"}

\* the newest row of the delivery log
LastRow == deliveries[Len(deliveries)]

\* C6: every send call that returns appends exactly one row to the delivery
\* log, the row carries the call's alert_id and the channel's id, and the rows
\* logged before stay as they were; this on each path of send.
C6_OneRowPerReturnedCall ==
    [][ lastSend'.ret \in {"True", "False"} =>
            /\ Len(deliveries') = Len(deliveries) + 1
            /\ SubSeq(deliveries', 1, Len(deliveries)) = deliveries
            /\ deliveries'[Len(deliveries')].alert_id = lastSend'.alert_id
            /\ deliveries'[Len(deliveries')].channel_id = lastSend'.channel.id
      ]_vars

\* reached: a call for a known channel type in quiet hours has returned false
\* and left its one row, skipped_quiet_hours
C6_QuietCallLogged ==
    /\ Returned
    /\ lastSend.channel.channel_type = "telegram"
    /\ lastSend.alert_id = 2
    /\ deliveries = <<DeliveryRow(2, lastSend.channel.id, "skipped_quiet_hours", "")>>

\* the hour a quiet_hours_start / quiet_hours_end text spells
SpelledHour(cfg, key, default) == IntOf(SplitFirst(get_config_value(cfg, key, default)))

\* the local hour lies in the quiet window [start, end) on the 24-hour dial
InQuietWindow(cfg, utc_hour) ==
    LET s == SpelledHour(cfg, "quiet_hours_start", QuietStartDefault)
        e == SpelledHour(cfg, "quiet_hours_end", QuietEndDefault)
    IN  /\ s \in 0..(HoursPerDay - 1)
        /\ e \in 0..(HoursPerDay - 1)
        /\ (utc_hour + JakartaOffset + HoursPerDay - s) % HoursPerDay
               < (e + HoursPerDay - s) % HoursPerDay

\* the condition under which a notification is held back
HeldBack(cfg, utc_hour, severity) ==
    /\ cfg["quiet_hours_enabled"] = Row("true")
    /\ InQuietWindow(cfg, utc_hour)
    /\ ~ (/\ cfg["quiet_hours_override_severe"] \in {NoRow, Row("true")}
          /\ severity \in {"Severe", "Extreme"})

\* C7 as stated: a call records skipped_quiet_hours, returns false and invokes
\* no sender exactly when quiet hours are enabled, the local hour is in the
\* window and the Severe/Extreme override does not apply; in every other case
\* it invokes the sender of its channel_type and records no skip.
C7_EveryOtherCaseInvokesSender ==
    lastSend.ret # "none" =>
        LET held == HeldBack(config, now % HoursPerDay, lastSend.severity)
        IN  /\ held => lastSend.invoked = "None"
            /\ ~held => lastSend.invoked = lastSend.channel.channel_type
            /\ Returned =>
                   /\ held => LastRow.status = "skipped_quiet_hours" /\ lastSend.ret = "False"
                   /\ ~held => LastRow.status # "skipped_quiet_hours"

\* C7: a call records skipped_quiet_hours, returns false and invokes no sender
\* exactly when quiet hours are enabled, the local hour is in the window and
\* the Severe/Extreme override does not apply; in every other case it records
\* no skip, and invokes the sender of its channel_type when the type is one of
\* the five sender_map knows and no sender when it is not.
C7_QuietHoursDecideTheSkip ==
    lastSend.ret # "none" =>
        LET held == HeldBack(config, now % HoursPerDay, lastSend.severity)
            known == lastSend.channel.channel_type \in SenderTypes
        IN  /\ held => lastSend.invoked = "None"
            /\ (~held /\ known) => lastSend.invoked = lastSend.channel.channel_type
            /\ (~held /\ ~known) => lastSend.invoked = "None"
            /\ Returned =>
                   /\ held => LastRow.status = "skipped_quiet_hours" /\ lastSend.ret = "False"
                   /\ ~held => LastRow.status # "skipped_quiet_hours"

\* reached: with the override switched off a Severe warning was held back at
\* 22:00 local, the first hour of the default window
C7_SevereHeldBack ==
    /\ Returned
    /\ lastSend.severity = "Severe"
    /\ config["quiet_hours_override_severe"] = Row("false")
    /\ config["quiet_hours_start"] = NoRow
    /\ (now + JakartaOffset) % HoursPerDay = 22
    /\ lastSend.invoked = "None"
    /\ LastRow.status = "skipped_quiet_hours"

\* C8 as stated: send returns true exactly when its row is 'sent'; when the
\* sender raises or the channel type is unknown the row is 'failed' with a
\* non-empty error_message and send returns false; no sender exception leaves
\* the call.
C8_FailedRowHasMessage ==
    /\ lastSend.ret = "raise" => lastSend.log_fails
    /\ Returned =>
           /\ lastSend.ret = "True" <=> LastRow.status = "sent"
           /\ (\/ lastSend.invoked # "None" /\ IsRaise(lastSend.outcome)
               \/ lastSend.channel.channel_type \notin SenderTypes) =>
                  /\ LastRow.status = "failed"
                  /\ LastRow.error_message # ""
                  /\ lastSend.ret = "False"

\* C8: send returns true exactly when its row is 'sent'; when the invoked
\* sender raises, the row is 'failed', its error_message is str() of the
\* exception (empty when that is empty) and send returns false; when the
\* channel type is unknown and the call is not held back for quiet hours, the
\* row is 'failed' with a non-empty error_message and send returns false; no
\* sender exception leaves the call (only a failing log_delivery does).
C8_ReturnMirrorsRow ==
    /\ lastSend.ret = "raise" => lastSend.log_fails
    /\ Returned =>
           /\ lastSend.ret = "True" <=> LastRow.status = "sent"
           /\ (lastSend.invoked # "None" /\ IsRaise(lastSend.outcome)) =>
                  /\ LastRow.status = "failed"
                  /\ LastRow.error_message = ExcStr(lastSend.outcome)
                  /\ lastSend.ret = "False"
           /\ (/\ lastSend.channel.channel_type \notin SenderTypes
               /\ ~HeldBack(config, now % HoursPerDay, lastSend.severity)) =>
                  /\ LastRow.status = "failed"
                  /\ LastRow.error_message # ""
                  /\ lastSend.ret = "False"

\* reached: the sender raised an exception whose str() is empty; the call
\* returned false over a 'failed' row with an empty error_message
C8_EmptyMessage ==
    /\ Returned
    /\ lastSend.invoked = "telegram"
    /\ lastSend.outcome = "raise:"
    /\ lastSend.ret = "False"
    /\ LastRow.status = "failed"
    /\ LastRow.error_message = ""

----------------------------------------------------------------------------
(* Properties of the matcher, under MatcherSpec                            *)

\* n occurs in h: at some offset every character of n is the one h holds there
IsSubstring(n, h) ==
    \E k \in 0..Len(h) :
        \A j \in 1..Len(n) : k + j <= Len(h) /\ h[k + j] = n[j]

\* what the reference emits for one location: "kecamatan", "kabupaten" or "none"
RefKind(warning, location) ==
    IF ~location.enabled THEN "none"
    ELSE IF /\ location.subdistrict_name # <<>>
            /\ IsSubstring(Lower(location.subdistrict_name), Lower(warning.description))
         THEN "kecamatan"
    ELSE IF /\ location.district_name # <<>>
            /\ \E i \in 1..Len(warning.areas) :
                   IsSubstring(Lower(location.district_name), Lower(warning.areas[i]))
         THEN "kabupaten"
    ELSE "none"

\* the Match the reference emits for a location of kind k
RefMatch(location, k) ==
    [location |-> location, match_type |-> k,
     matched_text |-> IF k = "kecamatan" THEN location.subdistrict_name
                      ELSE location.district_name]

C10_NoDisabledNoEmptyName ==
    m_result.done =>
        /\ \A j \in 1..Len(m_result.matches) :
               LET r == m_result.matches[j]
               IN  /\ r.location.enabled
                   /\ r.match_type = "kecamatan" => r.location.subdistrict_name # <<>>
                   /\ r.match_type = "kabupaten" => r.location.district_name # <<>>
                   /\ r.matched_text # <<>>
        /\ \A i \in 1..Len(m_locations) :
               (\/ ~m_locations[i].enabled
                \/ /\ m_locations[i].subdistrict_name = <<>>
                   /\ m_locations[i].district_name = <<>>) =>
                   \A j \in 1..Len(m_result.matches) :
                       m_result.matches[j].location.id # i

\* reached: over a warning with a description and an area, a disabled location
\* whose two names both occur and an enabled location with two empty names
\* were given, and nothing was matched
C10_NothingMatched ==
    /\ m_result.done
    /\ m_warning.description # <<>>
    /\ m_warning.areas # <<>>
    /\ Len(m_locations) = 2
    /\ ~m_locations[1].enabled
    /\ m_locations[1].subdistrict_name # <<>>
    /\ IsSubstring(Lower(m_locations[1].subdistrict_name), Lower(m_warning.description))
    /\ m_locations[1].district_name # <<>>
    /\ IsSubstring(Lower(m_locations[1].district_name), Lower(m_warning.areas[1]))
    /\ m_locations[2].enabled
    /\ m_locations[2].subdistrict_name = <<>>
    /\ m_locations[2].district_name = <<>>
    /\ m_result.matches = <<>>

----------------------------------------------------------------------------
(* Properties of a failing upstream, under Spec                            *)

\* the cycle of task p is on the path of its outer handler
Failing(p) == cyc[p].pc = "log" /\ cyc[p].logev = "poll_error"

PastItems(c) ==
    \/ c.pc \in {"sweep", "sweep_upd", "trials"}
    \/ c.pc = "log" /\ c.logev = "poll_completed" /\ c.data # <<>>

\* the detail fetch of item i of the cycle failed
DetailFailed(c, i) ==
    \E e \in 1..Len(c.summary.errors) : c.summary.errors[e] = <<c.data[i], "detail">>

\* the number of detail fetches of the cycle that failed
DetailFailures(c) == Cardinality({i \in 1..Len(c.data) : DetailFailed(c, i)})

\* C22: a failing get_nowcast_detail appends the item's error to the summary
\* and the loop goes to the next item, or to the expiry sweep after the last
\* one, writing nothing; when the item loop is over, every item was fetched or
\* has its error, and every match of every fetched item (short of an item cut
\* off by a refused insert) had its dedup check and has its alert row; and the
\* item loop is left only for the sweep, the sweep only for the trial steps,
\* unless stop() cancels the task.
C22_DetailFailureSkipsOneItem ==
    /\ [][\A p \in Procs :
            LET c == cyc[p]
            IN  /\ DetailFails(p) =>
                       /\ cyc'[p].summary.errors =
                              Append(c.summary.errors, <<c.data[c.i], "detail">>)
                       /\ IF c.i < Len(c.data)
                          THEN cyc'[p].pc = "detail" /\ cyc'[p].i = c.i + 1
                          ELSE cyc'[p].pc = "sweep"
                       /\ UNCHANGED <<alerts, deliveries, calls, last_poll_result>>
                /\ c.pc \in {"detail", "dup", "store", "send"} =>
                       cyc'[p].pc \in {"detail", "dup", "store", "send", "sweep", "dead"}
                /\ c.pc \in {"sweep", "sweep_upd"} =>
                       cyc'[p].pc \in {"sweep", "sweep_upd", "trials", "dead"}
                /\ c.pc = "trials" => cyc'[p].pc \in {"trials", "log", "dead"}
         ]_vars
    /\ [](\A p \in Procs :
            LET c == cyc[p]
            IN  PastItems(c) =>
                    /\ c.summary.details_fetched + DetailFailures(c) = Len(c.data)
                    /\ \A i \in 1..Len(c.data) :
                           \/ DetailFailed(c, i)
                           \/ \E x \in c.collided : x[1] = i
                           \/ \A w \in 1..Len(DetailWarnings(c.data[i])) :
                                  LET warning == DetailWarnings(c.data[i])[w]
                                      matches == match_locations(warning, c.locations)
                                  IN  ~warning.is_expired =>
                                          \A m \in 1..Len(matches) :
                                              /\ <<i, w, matches[m].location.id>> \in c.checked
                                              /\ \E a \in 1..Len(alerts) :
                                                     /\ alerts[a].bmkg_alert_code = c.data[i]
                                                     /\ alerts[a].matched_location_id =
                                                            matches[m].location.id)

\* reached: a cycle whose second detail fetch failed after the first item gave
\* it two alerts, with the sweep and the trial steps behind it and its result
\* composed
C22_LaterItemFailed ==
    \E p \in Procs :
        /\ cyc[p].pc = "log"
        /\ cyc[p].logev = "poll_completed"
        /\ cyc[p].summary.errors = << <<"CBT2", "detail">> >>
        /\ cyc[p].summary.details_fetched = 1
        /\ cyc[p].summary.new_alerts = 2
        /\ cyc[p].summary.expired_alerts = 1

\* the summaries a send call can leave: one more notification, or one more
\* error, or neither
AfterSendSummaries(summary) ==
    {summary,
     [summary EXCEPT !.notifications_sent = @ + 1],
     [summary EXCEPT !.errors = Append(@, <<"send", "store">>)]}

\* C23: whatever dispatcher.send does for channel k (it returns true, returns
\* false after a failed or raising sender, or raises because log_delivery
\* failed), the cycle goes on to the send for channel k + 1 of the same alert,
\* or after the last channel to the match loop's next step; and when the item
\* loop is over every alert the cycle inserted has had one call for each
\* channel of the cycle's list, unless stop() cancelled the task in that
\* alert's channel loop.
C23_SendFailureContained ==
    /\ [][\A p \in Procs :
            LET c == cyc[p]
            IN  Send(p) =>
                    /\ CopiesIn(<<c.run, c.alert_id, c.channels[c.k].id>>, calls') =
                           CopiesIn(<<c.run, c.alert_id, c.channels[c.k].id>>, calls) + 1
                    /\ \E s \in AfterSendSummaries(c.summary) :
                           cyc'[p] = IF c.k < Len(c.channels)
                                     THEN [c EXCEPT !.summary = s, !.k = c.k + 1]
                                     ELSE AfterMatch([c EXCEPT !.summary = s])
         ]_vars
    /\ [](\A p \in Procs :
            PastItems(cyc[p]) =>
                \A a \in 1..Len(hist) :
                    hist[a].by = cyc[p].run =>
                        \A j \in 1..Len(hist[a].chans) :
                            CopiesIn(<<hist[a].by, a, hist[a].chans[j]>>, calls) = 1)

\* reached: the first send of the cycle raised (the store refused the delivery
\* row of alert 1 on channel 1) and the webhook sender raised for alert 2, and
\* the cycle still made both calls for both of its alerts and finished its
\* items
C23_FirstSendRaised ==
    \E p \in Procs :
        /\ PastItems(cyc[p])
        /\ cyc[p].summary.errors = << <<"send", "store">> >>
        /\ cyc[p].summary.new_alerts = 2
        /\ \A a \in {1, 2} :
               /\ hist[a].by = cyc[p].run
               /\ \A ch \in {1, 2} : CopiesIn(<<cyc[p].run, a, ch>>, calls) = 1
        /\ ~\E d \in 1..Len(deliveries) :
               deliveries[d].alert_id = 1 /\ deliveries[d].channel_id = 1
        /\ \E d \in 1..Len(deliveries) :
               deliveries[d].alert_id = 1 /\ deliveries[d].channel_id = 2
        /\ \E d \in 1..Len(deliveries) :
               /\ deliveries[d].alert_id = 2
               /\ deliveries[d].channel_id = 2
               /\ deliveries[d].status = "failed"

----------------------------------------------------------------------------
(* Properties of check_now, under Spec                                     *)

\* C24: a check_now call begins one cycle, with a run number of its own, on
\* the caller's frame; every step of that frame keeps the cycle's run number
\* until the frame is handed back, and leaves the running flag, the loop
\* task's frame, the stop event and the task handle as they were, with the
\* engine running or stopped; and the caller's frame is never at the read of
\* poll_interval or in the wait on the stop event.
C24_CheckNowIsOneCycle ==
    /\ [][ /\ CheckNow =>
                /\ runs' = runs + 1
                /\ cyc'["check"].run = runs'
                /\ cyc'["check"].pc = "list"
           /\ cyc'["check"] # cyc["check"] =>
                /\ running' = running
                /\ cyc'["loop"] = cyc["loop"]
                /\ UNCHANGED lifeVars
                /\ InFlight(cyc["check"]) =>
                       \/ cyc'["check"].run = cyc["check"].run /\ InFlight(cyc'["check"])
                       \/ cyc'["check"].pc = "done"
         ]_vars
    /\ [](cyc["check"].pc \notin {"interval", "wait", "dead"})
    /\ [](InFlight(cyc["check"]) => cyc["check"].run # cyc["loop"].run)

\* reached: the engine is running and its loop waits for the interval of its
\* own cycle, and a check_now call has run a second cycle to its end
C24_CheckedWhileRunning ==
    /\ running
    /\ cyc["loop"].pc = "wait"
    /\ cyc["check"].pc = "done"
    /\ runs = 2
    /\ activity = {"engine_started", "poll_completed"}
    /\ Len(alerts) = 2

----------------------------------------------------------------------------
(* Properties of the order of a cycle's effects, under Spec                *)

\* (item, warning, match) positions compared as the nested loops visit them
Before(x, y) ==
    \/ x[1] < y[1]
    \/ x[1] = y[1] /\ x[2] < y[2]
    \/ x[1] = y[1] /\ x[2] = y[2] /\ x[3] < y[3]

\* the position of a channel id in the channel list alert a was dispatched on
ChannelPos(a, channel_id) ==
    CHOOSE j \in 1..Len(hist[a].chans) : hist[a].chans[j] = channel_id

\* the calls in the bag for alert a cover exactly the first n channels of its
\* list
CalledUpTo(bag, a, n) ==
    \A j \in 1..Len(hist[a].chans) :
        CopiesIn(<<hist[a].by, a, hist[a].chans[j]>>, bag) = (IF j <= n THEN 1 ELSE 0)

\* C25: the alerts of one cycle are inserted in the order of (list item,
\* warning, location), and the cycle's position in its loops never goes back;
\* the delivery rows of one alert stand in the order of the channel list; the
\* send for channel k finds the calls for the channels before k made and none
\* after; and at every dedup check and every insert of a cycle, all the calls
\* for the alerts that cycle inserted before have been made.
C25_CycleOrder ==
    /\ [](\A a, b \in 1..Len(hist) :
            a < b /\ hist[a].by = hist[b].by => Before(hist[a].at, hist[b].at))
    /\ [](\A d, e \in 1..Len(deliveries) :
            d < e /\ deliveries[d].alert_id = deliveries[e].alert_id =>
                ChannelPos(deliveries[d].alert_id, deliveries[d].channel_id)
                    < ChannelPos(deliveries[e].alert_id, deliveries[e].channel_id))
    /\ [][\A p \in Procs :
            LET c == cyc[p]
            IN  /\ Send(p) => CalledUpTo(calls, c.alert_id, c.k - 1) /\ CalledUpTo(calls', c.alert_id, c.k)
                /\ Dup(p) \/ StoreInserts(p) =>
                       \A a \in 1..Len(hist) :
                           hist[a].by = c.run => CalledUpTo(calls, a, Len(hist[a].chans))
                /\ c.pc \in {"detail", "dup", "store", "send"}
                       /\ cyc'[p].pc \in {"detail", "dup", "store", "send"} =>
                       \/ <<c.i, c.w, c.m>> = <<cyc'[p].i, cyc'[p].w, cyc'[p].m>>
                       \/ Before(<<c.i, c.w, c.m>>, <<cyc'[p].i, cyc'[p].w, cyc'[p].m>>)
         ]_vars

\* reached: one cycle inserted alert 1 for the first warning and alert 2 for
\* the second match of the second warning, the four delivery rows stand alert
\* by alert in channel order, and the cycle is at the fetch of the second item
C25_TwoAlertsInOrder ==
    \E p \in Procs :
        /\ cyc[p].pc = "detail"
        /\ cyc[p].i = 2
        /\ Len(hist) = 2
        /\ hist[1].by = cyc[p].run /\ hist[1].at = <<1, 1, 1>>
        /\ hist[2].by = cyc[p].run /\ hist[2].at = <<1, 2, 2>>
        /\ [d \in 1..Len(deliveries) |-> <<deliveries[d].alert_id, deliveries[d].channel_id>>]
               = << <<1, 1>>, <<1, 2>>, <<2, 1>>, <<2, 2>> >>

----------------------------------------------------------------------------
(* Properties of trial registration, under RegisterSpec                    *)

\* the trial is active: expires_at > CURRENT_TIMESTAMP
ActiveTrial(row) == StrLess(Timestamp(now), row.expires_at)

\* C26: in every state, no Telegram chat holds two active trials (expires_at
\* later than the clock), whatever register_trial and cancel_trial requests
\* ran and however their awaits interleaved.
C26_OneActiveTrialPerChat ==
    \A i, j \in 1..Len(trials) :
        i < j /\ trials[i].telegram_chat_id = trials[j].telegram_chat_id =>
            ~(ActiveTrial(trials[i]) /\ ActiveTrial(trials[j]))

\* C27: every row of trial_subscriptions has expires_at later than
\* registered_at, in every state, the states after cancel_trial included.
C27_ExpiresAfterRegistered ==
    \A i \in 1..Len(trials) : StrLess(trials[i].registered_at, trials[i].expires_at)

----------------------------------------------------------------------------
(* Properties of the trial notifications and the early returns, under      *)
(* CycleSpec                                                               *)

\* the severity names in rising order: Minor=0 < Moderate=1 < Severe=2 < Extreme=3
SeverityLevels == <<"minor", "moderate", "severe", "extreme">>

\* the rank of a severity name, in either case
Rank(name) == (CHOOSE k \in 1..Len(SeverityLevels) : SeverityLevels[k] = SeverityLower(name)) - 1

\* the warning's severity meets the trial's threshold
MeetsThreshold(severity, threshold) ==
    threshold = "all" \/ Rank(severity) >= Rank(threshold)

\* C28: every trial notification sent was for a warning and a trial whose
\* threshold is "all" or whose threshold's rank is at most the rank of the
\* warning's severity: no warning below a trial's threshold reaches it.
C28_TrialSeverityFilter ==
    \A n \in 1..Len(notices) : MeetsThreshold(notices[n].severity, notices[n].threshold)

\* reached: a finished cycle sent the severe warning to a trial whose threshold
\* is Severe, and the moderate warning, which names no place of that trial's,
\* went to nobody
C28_SentAtThreshold ==
    /\ cyc["check"].pc = "done"
    /\ Len(notices) = 1
    /\ notices[1].severity = "Severe"
    /\ notices[1].threshold = "Severe"
    /\ notices[1].ok

\* trial t is owed a notification for warning w of list item i: the trial is
\* active, the warning is not expired, names the trial's place and meets its
\* threshold
Owed(t, i, w) ==
    LET trial == trials[t]
        warning == DetailWarnings(NowcastData[i])[w]
    IN  /\ StrLess(Timestamp(now), trial.expires_at)
        /\ ~warning.is_expired
        /\ TrialMatches(warning, trial)
        /\ MeetsThreshold(warning.severity, trial.severity_threshold)

\* send_raw was called by cycle `run` for trial t and warning w of item i
SentTo(run, t, i, w) ==
    \E n \in 1..Len(notices) :
        /\ notices[n].run = run
        /\ notices[n].trial = trials[t].id
        /\ notices[n].code = NowcastData[i]
        /\ notices[n].w = w

\* a cycle that found enabled locations, with its result composed: every
\* owed notification of an item whose detail _process_trials got was sent
ServedWithLocations ==
    LET c == cyc["check"]
    IN  c.pc = "log" /\ c.logev = "poll_completed" /\ c.data # <<>> /\ bot_token =>
            \A t \in 1..Len(trials), i \in 1..Len(NowcastData) :
                \A w \in 1..Len(DetailWarnings(NowcastData[i])) :
                    Owed(t, i, w) /\ i \notin c.unfetched => SentTo(c.run, t, i, w)

\* a cycle that found no enabled location and returned: every owed
\* notification was sent
ServedWithoutLocations ==
    cyc["check"].pc = "done" /\ last_poll_result = <<"no locations configured">>
        /\ bot_token =>
            \A t \in 1..Len(trials), i \in 1..Len(NowcastData) :
                \A w \in 1..Len(DetailWarnings(NowcastData[i])) :
                    Owed(t, i, w) => SentTo(runs, t, i, w)

\* C29: with a bot token set, a cycle whose list arrived with items sends
\* every active trial the notification it is owed for every warning whose
\* detail it got, with enabled locations in the table and without.
C29_TrialsIndependentOfLocations == ServedWithLocations /\ ServedWithoutLocations

\* C30: after a cycle whose get_nowcast_list did not fail has returned, no
\* alert is active with a non-empty expires earlier than the clock of the
\* cycle, the list being empty or no location being enabled included.
C30_SweepEveryCycle ==
    cyc["check"].pc = "done" /\ last_poll_result # <<"error">> =>
        ExpiredRows(alerts, now) = <<>>

----------------------------------------------------------------------------
(* The poll loop cycle after cycle, with a trial that falls due             *)

\* _process_trials returns 0 at once (no bot token, or no active trial); the
\* cycle is at the SELECT of expire_trials
TrialsNone(p) ==
    /\ cyc[p].pc = "trials"
    /\ ~bot_token \/ get_active_trials(trials, now) = <<>>
    /\ cyc' = [cyc EXCEPT ![p] = [@ EXCEPT !.pc = "texpire"]]
    /\ UNCHANGED <<notices, noticeFrame>>

\* _expire_trials, expire_trials: the SELECT finds trials that are due
TrialsExpireSelect(p) ==
    /\ cyc[p].pc = "texpire"
    /\ DueTrials(trials, now) # <<>>
    /\ cyc' = [cyc EXCEPT ![p] = [@ EXCEPT !.pc = "tupdate", !.pending = DueTrials(trials, now)]]
    /\ UNCHANGED <<notices, noticeFrame>>

\* _expire_trials is through with the rows it was given: trials_expired is
\* their number and the result is composed
TrialsExpired(c) == Compose([c EXCEPT !.summary.trials_expired = Len(c.pending), !.pending = <<>>])

\* expire_trials: the UPDATE; without a bot token _expire_trials returns the
\* number of rows at once
TrialsExpireUpdate(p) ==
    /\ cyc[p].pc = "tupdate"
    /\ trials' = MarkNotified(trials, cyc[p].pending)
    /\ IF bot_token
       THEN /\ cyc' = [cyc EXCEPT ![p] = [@ EXCEPT !.pc = "tfarewell", !.k = 1]]
            /\ UNCHANGED last_poll_result
       ELSE /\ cyc' = [cyc EXCEPT ![p] = TrialsExpired(@)]
            /\ last_poll_result' = OkResult(cyc[p].summary)
    /\ UNCHANGED <<alerts, deliveries, config, activity, loc_table, chan_table, now,
                   running, histVars, matcherVars, sweepVars, bot_token, xt, expiries,
                   farewells, lifeVars, regVars>>

\* _expire_trials: telegram.send_raw of the farewell to the next trial (an
\* exception of the sender is logged and the loop goes on)
TrialsFarewell(p) ==
    /\ cyc[p].pc = "tfarewell"
    /\ farewells' = farewells (+) SetToBag({cyc[p].pending[cyc[p].k].id})
    /\ IF cyc[p].k = Len(cyc[p].pending)
       THEN /\ cyc' = [cyc EXCEPT ![p] = TrialsExpired(@)]
            /\ last_poll_result' = OkResult(cyc[p].summary)
       ELSE /\ cyc' = [cyc EXCEPT ![p] = [@ EXCEPT !.k = @ + 1]]
            /\ UNCHANGED last_poll_result
    /\ UNCHANGED <<alerts, deliveries, config, activity, loc_table, chan_table, now,
                   running, histVars, matcherVars, sweepVars, trials, bot_token, xt,
                   expiries, lifeVars, regVars>>

\* _poll_loop: the wait times out and the next cycle starts (the cycles of
\* this loop are not counted)
LoopRestart ==
    /\ cyc["loop"].pc = "wait"
    /\ running
    /\ cyc' = [cyc EXCEPT !["loop"] = [IdleFrame EXCEPT !.pc = "list", !.run = cyc["loop"].run]]
    /\ UNCHANGED <<alerts, deliveries, config, activity, loc_table, chan_table, now,
                   running, last_poll_result, histVars, otherVars>>

\* the alerts table after earlier cycles stored every match of the upstream
\* and swept the rows
StoredAlerts ==
    [a \in 1..2 |->
        [id |-> a, bmkg_alert_code |-> "CBT1", severity |-> "Moderate",
         expires |-> <<"0", "T", "1", "0">>, matched_location_id |-> a,
         match_type |-> "kecamatan", matched_text |-> <<"A", "l">>, status |-> "expired"]]

\* a place no warning of the upstream names
NoPlace == <<"Z", "z">>

\* one trial: cancelled an hour ago, or registered an hour ago
PollTrials ==
    {<<TrialSubscription(1, 1, NoPlace, <<>>, "all", Timestamp(StartNow - 2),
                         Timestamp(StartNow - 1))>>,
     <<TrialSubscription(1, 1, NoPlace, <<>>, "all", Timestamp(StartNow - 1),
                         Timestamp(StartNow - 1 + TRIAL_DURATION_HOURS))>>}

PollInit ==
    /\ alerts = StoredAlerts
    /\ hist = [a \in 1..Len(alerts) |-> OldHist]
    /\ loc_table \in {LocationRows, NoEnabledLocations}
    /\ trials \in PollTrials
    /\ bot_token \in BOOLEAN
    /\ activity = {}
    /\ chan_table = ChannelRows
    /\ running = FALSE
    /\ last_poll_result = <<"none">>
    /\ cyc = [p \in Procs |-> IdleFrame]
    /\ runs = 0
    /\ calls = EmptyBag
    /\ faults = 0
    /\ deliveries = <<>>
    /\ config = EngineConfig
    /\ now = StartNow
    /\ lastSend = NoSend
    /\ MatcherIdle
    /\ SweepIdle
    /\ xt = [p \in Procs |-> NoExpire]
    /\ expiries = <<>>
    /\ farewells = EmptyBag
    /\ LifeIdle
    /\ RegIdle

\* the steps of the loop task: the upstream returns a list, empty or not, and
\* every detail; the store answers
PollStep ==
    \/ ListEmpty("loop")
    \/ ListData("loop")
    \/ Locs("loop")
    \/ Chans("loop")
    \/ DetailOk("loop")
    \/ Dup("loop")
    \/ Sweep("loop")
    \/ TrialsNone("loop")
    \/ TrialsFetch("loop")
    \/ TrialDetailOk("loop")
    \/ TrialsExpire("loop")
    \/ TrialsExpireSelect("loop")
    \/ TrialsExpireUpdate("loop")
    \/ TrialsFarewell("loop")
    \/ Log("loop")
    \/ LoopInterval
    \/ LoopRestart

PollNext ==
    \/ Start
    \/ PollStep
    \/ cancel_trial(1)

\* the event loop runs the loop task whenever its await has returned, and the
\* wait on the stop event times out
PollLiveSpec == PollInit /\ [][PollNext]_vars /\ WF_vars(PollStep)

\* C31: while the engine runs, a trial whose expires_at has passed is in the end
\* returned by expire_trials and marked expired_notified, whatever the upstream
\* returns
C31_DueTrialExpired ==
    (running /\ DueTrials(trials, now) # <<>>) ~> (DueTrials(trials, now) = <<>>)

----------------------------------------------------------------------------
(* Cancellation of a cycle in flight                                        *)

\* C32: a cycle that stop() cancels in flight is recorded as a poll cycle error:
\* the step that cancels it leaves last_poll_result at an "error: ..." value
C32_CancelledCycleRecorded ==
    [][(Stop /\ InFlight(cyc["loop"])) => last_poll_result' = <<"error">>]_vars

----------------------------------------------------------------------------
(* The quiet window over every hour, start and end                          *)

\* the hours of a day
Hours == 0..(HoursPerDay - 1)

\* an hour as the settings page writes it: two digits, a colon, two zeros
HourText(h) == <<Digits[(h \div 10) + 1], Digits[(h % 10) + 1], ":", "0", "0">>

\* the severities the window applies to and the override rows that let it
QuietCases == {<<"Minor", NoRow>>, <<"Moderate", NoRow>>, <<"Severe", Row("false")>>}

QuietConfigs ==
    {[key \in ConfigKeys |->
         CASE key = "quiet_hours_enabled" -> Row("true")
           [] key = "quiet_hours_override_severe" -> o
           [] key = "quiet_hours_start" -> Row(HourText(s))
           [] key = "quiet_hours_end" -> Row(HourText(e))] :
     o \in {NoRow, Row("false")}, s \in Hours, e \in Hours}

QInit ==
    /\ EngineIdle
    /\ deliveries = <<>>
    /\ config \in QuietConfigs
    /\ now \in Hours
    /\ lastSend = NoSend
    /\ MatcherIdle
    /\ SideIdle

\* one call of NotificationDispatcher.send for an alert the override leaves to
\* the window; the sender and the store do their work
QSend ==
    /\ deliveries = <<>>
    /\ \E x \in QuietCases :
           LET channel == [id |-> 1, channel_type |-> "telegram", enabled |-> TRUE]
               res == DispatcherSend(config, now, 1, x[1], channel, "True", FALSE)
           IN  /\ config["quiet_hours_override_severe"] = x[2]
               /\ deliveries' = deliveries \o res.rows
               /\ lastSend' = SendRecord(1, x[1], channel, "True", FALSE, res)
    /\ UNCHANGED <<alerts, config, activity, loc_table, chan_table, now, running,
                   last_poll_result, cyc, runs, hist, calls, faults, otherVars>>

QNext == QSend

QuietSpec == QInit /\ [][QNext]_vars

\* the hour a config row spells, read back without the parser of the dispatcher
HourOf(row) == CHOOSE h \in Hours : HourText(h) = row.value

\* x modulo 24, for x from -23 on
ModDay(x) == (x + HoursPerDay) % HoursPerDay

\* the window [s, e) modulo 24 on the UTC+7 hour
InWindow(h, s, e) == ModDay(ModDay(h + JakartaOffset) - s) < ModDay(e - s)

\* the send was skipped for quiet hours
SkippedQuiet == deliveries # <<>> /\ deliveries[1].status = "skipped_quiet_hours"

\* C33: for every UTC hour h and every start s and end e in 0..23 the window
\* test is true exactly when ((h + 7) mod 24 - s) mod 24 < (e - s) mod 24
C33_QuietWindow ==
    lastSend # NoSend =>
        (SkippedQuiet <=> InWindow(now, HourOf(config["quiet_hours_start"]),
                                        HourOf(config["quiet_hours_end"])))

\* a send skipped after midnight in a window that wraps: 22:00 to 06:00, at
\* 18:00 UTC, 01:00 in Jakarta
C33_SkippedPastMidnight ==
    /\ SkippedQuiet
    /\ HourOf(config["quiet_hours_start"]) = 22
    /\ HourOf(config["quiet_hours_end"]) = 6
    /\ now = 18

----------------------------------------------------------------------------
(* Cycles that return early                                                 *)

\* the awaits of the item loop and of the trial notifications
WorkPcs == {"detail", "dup", "store", "send", "tdetail", "tsend"}

\* the summary counts nothing matched, stored or fetched
NothingCounted(summary) ==
    /\ summary.matches_found = 0
    /\ summary.new_alerts = 0
    /\ summary.details_fetched = 0
    /\ summary.notifications_sent = 0

\* the step stores no alert, calls no dispatcher and notifies no trial
NothingDone == UNCHANGED <<alerts, hist, deliveries, calls, notices>>

\* cycle `run` stored no alert and called no dispatcher
NoTraceOf(run) ==
    /\ \A a \in 1..Len(hist) : hist[a].by # run
    /\ \A x \in BagToSet(calls) : x[1] # run
    /\ \A n \in 1..Len(notices) : notices[n].run # run

\* the step check_now's cycle takes when get_nowcast_list comes back
AfterList ==
    LET c == cyc["check"]
        d == cyc'["check"]
    IN  c.pc = "list" /\ d # c =>
            \/ d.pc = "log" /\ d.logev = "poll_error"
            \/ d.pc = "locs" /\ d.data # <<>>
            \/ /\ d.pc = "log" /\ d.logev = "poll_completed" /\ d.data = <<>>
               /\ last_poll_result' = <<"no warnings">>
               /\ NothingCounted(d.summary)
               /\ NoTraceOf(c.run)
               /\ NothingDone

\* the step the cycle takes when get_enabled_locations returns no location
AfterNoLocations ==
    LET c == cyc["check"]
        d == cyc'["check"]
    IN  c.pc = "locs" /\ d # c /\ get_enabled_locations(loc_table) = <<>> =>
            /\ d.pc = "done"
            /\ last_poll_result' = <<"no locations configured">>
            /\ NothingCounted(c.summary)
            /\ NoTraceOf(c.run)
            /\ NothingDone

\* C34: a cycle whose list is empty, or that finds no enabled location, fetches
\* no detail, inserts no alert and calls no dispatcher; it sets last_poll_result
\* to "no warnings", resp. "no locations configured", with matches_found = 0 and
\* new_alerts = 0 in its summary; the list is tested before the locations.
C34_EarlyReturns ==
    /\ [][AfterList /\ AfterNoLocations]_vars
    /\ [](cyc["check"].pc = "locs" => cyc["check"].data # <<>>)
    /\ [](cyc["check"].pc \in WorkPcs =>
              cyc["check"].data # <<>> /\ cyc["check"].locations # <<>>)
    /\ [](cyc["check"].pc = "log" /\ cyc["check"].logev = "poll_completed"
              /\ cyc["check"].data = <<>> =>
                  last_poll_result = <<"no warnings">> /\ NothingCounted(cyc["check"].summary))

\* reached: with no location enabled, a cycle with an empty list has logged
\* "no warnings" and a second one, with items, has returned at the location test
C34_BothEarlyReturns ==
    /\ loc_table = NoEnabledLocations
    /\ runs = 2
    /\ cyc["check"].pc = "done"
    /\ last_poll_result = <<"no locations configured">>
    /\ "poll_completed" \in activity
    /\ alerts = <<>>

----------------------------------------------------------------------------
(* The counters of the summary against the store                            *)

\* the alert rows cycle `run` inserted
InsertedBy(run) == {a \in 1..Len(hist) : hist[a].by = run}

\* the 'sent' delivery rows appended for alerts of cycle `run`
SentRowsOf(run) ==
    {n \in 1..Len(deliveries) :
        deliveries[n].status = "sent" /\ deliveries[n].alert_id \in InsertedBy(run)}

\* the summary of a cycle in flight agrees with the rows the cycle wrote
CountersMatchStore(c) ==
    /\ c.summary.new_alerts + c.summary.duplicates_skipped <= c.summary.matches_found
    /\ c.summary.new_alerts = Cardinality(InsertedBy(c.run))
    /\ c.summary.notifications_sent = Cardinality(SentRowsOf(c.run))

\* the cycle has composed its result after walking a list with items
Completed(c) == c.pc = "log" /\ c.logev = "poll_completed" /\ c.data # <<>>

\* store_alert is called by the step only after is_duplicate has said no
StoreOnlyAfterDedup(p) ==
    cyc'[p].pc = "store" /\ cyc[p].pc # "store" =>
        /\ cyc[p].pc = "dup"
        /\ ~is_duplicate(alerts, cyc[p].data[cyc[p].i], cyc[p].matches[cyc[p].m].location.id)

\* C35: at every point of a cycle new_alerts + duplicates_skipped <= matches_found,
\* new_alerts is the number of alert rows the cycle inserted and
\* notifications_sent the number of 'sent' delivery rows it appended; a cycle
\* that completes with no insert refused has new_alerts + duplicates_skipped =
\* matches_found; store_alert is called only for a match is_duplicate denied,
\* so a cycle all of whose matches are duplicates has new_alerts = 0.
C35_CountersConsistent ==
    /\ [](\A p \in Procs : InFlight(cyc[p]) => CountersMatchStore(cyc[p]))
    /\ [](\A p \in Procs :
             Completed(cyc[p]) /\ cyc[p].collided = {} =>
                 cyc[p].summary.new_alerts + cyc[p].summary.duplicates_skipped
                     = cyc[p].summary.matches_found)
    /\ [](\A p \in Procs :
             Completed(cyc[p]) /\ cyc[p].summary.duplicates_skipped = cyc[p].summary.matches_found
                 => cyc[p].summary.new_alerts = 0 /\ InsertedBy(cyc[p].run) = {})
    /\ [][\A p \in Procs : StoreOnlyAfterDedup(p)]_vars

\* reached: the second cycle has completed with every one of its three matches
\* a duplicate, after the first stored two alerts and sent for them
C35_AllDuplicates ==
    \E p \in Procs :
        /\ Completed(cyc[p])
        /\ cyc[p].run = 2
        /\ cyc[p].summary.matches_found = 3
        /\ cyc[p].summary.duplicates_skipped = 3
        /\ cyc[p].summary.new_alerts = 0
        /\ Cardinality(InsertedBy(1)) = 2
        /\ SentRowsOf(1) # {}

----------------------------------------------------------------------------
(* Two expiry sweeps at once                                                *)

\* the alerts that were transitioned to expired
Transitioned == {a \in 1..Len(alerts) : alerts[a].status = "expired"}

\* C36: each alert is returned as newly expired by at most one sweep: the
\* expired_alerts counts of the cycles in flight sum to no more than the number
\* of alerts that were transitioned
C36_ExpiredCountsAddUp ==
    cyc["loop"].summary.expired_alerts + cyc["check"].summary.expired_alerts
        <= Cardinality(Transitioned)

----------------------------------------------------------------------------
(* Trial notifications and farewells of two cycles at once                  *)

\* one trial, registered an hour ago for the place of the moderate warning,
\* with no threshold
OverlapTrials ==
    <<TrialSubscription(1, 1, <<"A", "l">>, <<>>, "all", Timestamp(StartNow - 1),
                        Timestamp(StartNow - 1 + TRIAL_DURATION_HOURS))>>

OverlapInit ==
    /\ alerts = StoredAlerts
    /\ hist = [a \in 1..Len(alerts) |-> OldHist]
    /\ loc_table = LocationRows
    /\ trials = OverlapTrials
    /\ bot_token = TRUE
    /\ activity = {}
    /\ chan_table = ChannelRows
    /\ running = FALSE
    /\ last_poll_result = <<"none">>
    /\ cyc = [p \in Procs |-> IdleFrame]
    /\ runs = 0
    /\ calls = EmptyBag
    /\ faults = 0
    /\ deliveries = <<>>
    /\ config = EngineConfig
    /\ now = StartNow
    /\ lastSend = NoSend
    /\ MatcherIdle
    /\ SweepIdle
    /\ xt = [p \in Procs |-> NoExpire]
    /\ expiries = <<>>
    /\ farewells = EmptyBag
    /\ LifeIdle
    /\ RegIdle

\* the steps of a cycle whose upstream and store answer
OverlapStep(p) ==
    \/ ListData(p)
    \/ Locs(p)
    \/ Chans(p)
    \/ DetailOk(p)
    \/ Dup(p)
    \/ Sweep(p)
    \/ TrialsNone(p)
    \/ TrialsFetch(p)
    \/ TrialDetailOk(p)
    \/ TrialSend(p)
    \/ TrialsExpire(p)
    \/ TrialsExpireSelect(p)
    \/ TrialsExpireUpdate(p)
    \/ TrialsFarewell(p)
    \/ Log(p)

\* the loop's cycles and check_now's, while the trial may be cancelled
OverlapNext ==
    \/ Start
    \/ CheckNow
    \/ LoopInterval
    \/ LoopTimeout
    \/ \E p \in Procs : OverlapStep(p)
    \/ cancel_trial(1)

OverlapSpec == OverlapInit /\ [][OverlapNext]_vars

\* C37: no notification of a warning is sent to a trial after its farewell:
\* whenever _process_trials calls send_raw for a trial, _expire_trials has sent
\* that trial no farewell yet
C37_NoNoticeAfterFarewell ==
    [][Len(notices') > Len(notices) =>
          CopiesIn(notices'[Len(notices')].trial, farewells) = 0]_vars

----------------------------------------------------------------------------
(* Trial notifications cycle after cycle                                    *)

\* the send_raw calls of cycle `run` for trial t and warning w of item i
SendsOf(run, t, i, w) ==
    {n \in 1..Len(notices) :
        /\ notices[n].run = run
        /\ notices[n].trial = trials[t].id
        /\ notices[n].code = NowcastData[i]
        /\ notices[n].w = w}

\* C38: the trial notifications keep no dedup state: in every completed cycle
\* with a bot token, each (active trial, warning) whose detail was fetched gets
\* exactly one send attempt when the warning is not expired, names the trial's
\* place and meets its threshold, and none otherwise, whatever earlier cycles
\* sent and whatever the alerts table holds; a warning flagged is_expired gets
\* none.
C38_TrialsKeepNoDedupState ==
    /\ LET c == cyc["check"]
       IN  Completed(c) /\ bot_token =>
               \A t \in 1..Len(trials), i \in 1..Len(NowcastData) :
                   \A w \in 1..Len(DetailWarnings(NowcastData[i])) :
                       i \notin c.unfetched =>
                           Cardinality(SendsOf(c.run, t, i, w)) = IF Owed(t, i, w) THEN 1 ELSE 0
    /\ \A n \in 1..Len(notices) : ~DetailWarnings(notices[n].code)[notices[n].w].is_expired

\* reached: the second cycle has completed and sent the trial the warning the
\* first cycle had sent it, with the alerts of the first cycle in the table
C38_SentAgain ==
    /\ Completed(cyc["check"])
    /\ cyc["check"].run = 2
    /\ Len(alerts) >= 2
    /\ \E i \in 1..Len(NowcastData) :
           \E w \in 1..Len(DetailWarnings(NowcastData[i])) :
               /\ Cardinality(SendsOf(1, 1, i, w)) = 1
               /\ Cardinality(SendsOf(2, 1, i, w)) = 1

====
